---------------------------- MODULE Spec2Model ----------------------------
(***************************************************************************)
(* Model of ntoskrnl/mm/ARM3/mminit.c (ReactOS ARM3 memory manager         *)
(* initialization), two-level paging (x86).                                *)
(*                                                                         *)
(* Geometry is scaled down.  A page of the PFN array holds PfnPerPage      *)
(* entries, the two color tables take ColorTableUnits entry-sized slots    *)
(* right after the entry of MmHighestPhysicalPage.  A page-table entry is  *)
(* named <<k, l>>: slot l of the page table that PDE k maps.  Because of   *)
(* the x86 self map, PDE k is itself the entry <<SelfPde, k>>.             *)
(***************************************************************************)
EXTENDS Integers, Sequences, FiniteSets, TLC

(* ----------------------------- bounds --------------------------------- *)
\* frames 0 .. VarFrames-1 are described by the variable part of the loader list
VarFrames == 8
\* entries of the PFN array per page (PAGE_SIZE / sizeof(MMPFN))
PfnPerPage == 4
\* log2 of MmSecondaryColors
ColorBits == 1
\* number of descriptors in the variable part of the loader's list
MaxDescriptors == 2
\* largest PageCount of a descriptor of the variable part
MaxPageCount == 4
\* largest request made to MiEarlyAllocPages by the allocator driver
MaxRequest == 2

(* ------------------------ loader memory types ------------------------- *)
FreeTypes == {"LoaderFree", "LoaderLoadedProgram", "LoaderFirmwareTemporary",
              "LoaderOsloaderStack"}
ExcludedTypes == {"LoaderFirmwarePermanent", "LoaderSpecialMemory", "LoaderBBTMemory"}

\* LocationByMemoryType[] as filled in by MiScanMemoryDescriptors; "None" is -1
LocationByMemoryType(t) ==
    IF t \in FreeTypes THEN "FreePageList"
    ELSE IF t = "LoaderBad" THEN "BadPageList"
    ELSE IF t \in ExcludedTypes THEN "None"
    ELSE "ActiveAndValid"

MiIsMemoryTypeInDatabase(t) == LocationByMemoryType(t) # "None"

\* a test that knows one free type only
IsLoaderFree(t) == t = "LoaderFree"

MiIsMemoryTypeFree(t) == LocationByMemoryType(t) = "FreePageList"

(* --------------------------- small helpers ---------------------------- *)
Min(a, b) == IF a < b THEN a ELSE b
Max(a, b) == IF a > b THEN a ELSE b

\* (PFN_NUMBER)-1, the initial MmLowestPhysicalPage
NoPage == -1
\* min() on signed numbers, where -1 is below every page number
SignedMin(a, b) == IF a < b THEN a ELSE b

\* min() on PFN_NUMBER, where -1 is the largest unsigned value
UMin(a, b) == IF a = NoPage THEN b ELSE IF b = NoPage THEN a ELSE Min(a, b)

RECURSIVE SumSeq(_)
SumSeq(s) == IF s = <<>> THEN 0 ELSE Head(s) + SumSeq(Tail(s))

Range(s) == {s[i] : i \in 1..Len(s)}

FramesOf(d) == d.BasePage .. (d.BasePage + d.PageCount - 1)

(* ------------------- MiScanMemoryDescriptors -------------------------- *)
ScanStart ==
    [MiNumberDescriptors |-> 0, MmNumberOfPhysicalPages |-> 0,
     MmLowestPhysicalPage |-> NoPage, MmHighestPhysicalPage |-> 0,
     MiNumberOfFreePages |-> 0, MiEarlyAllocCount |-> 0, MxFreeDescriptor |-> 0]

\* a test that lets a later descriptor of the same size win
IsNoSmallerFreeDescriptor(PageCount, BestCount) == PageCount >= BestCount

\* does descriptor Md replace the current choice for early allocations
IsLargerFreeDescriptor(PageCount, BestCount) == PageCount > BestCount

\* a count that takes bad pages too
CountsEveryType(t) == TRUE

\* is the descriptor counted in MmNumberOfPhysicalPages
CountsAsPhysical(t) == t # "LoaderBad"

\* one iteration of the loop over the descriptor list; i is the list position
ScanStep(s, Md, i) ==
    LET counted == [s EXCEPT !.MiNumberDescriptors = @ + 1] IN
    IF ~MiIsMemoryTypeInDatabase(Md.MemoryType) THEN counted
    ELSE
      LET a == [counted EXCEPT
                  !.MmNumberOfPhysicalPages =
                      IF CountsAsPhysical(Md.MemoryType) THEN @ + Md.PageCount ELSE @,
                  !.MmLowestPhysicalPage = UMin(@, Md.BasePage),
                  !.MmHighestPhysicalPage = Max(@, Md.BasePage + Md.PageCount - 1)]
      IN IF ~MiIsMemoryTypeFree(Md.MemoryType) THEN a
         ELSE LET b == [a EXCEPT !.MiNumberOfFreePages = @ + Md.PageCount] IN
              IF IsLargerFreeDescriptor(Md.PageCount, b.MiEarlyAllocCount)
              THEN [b EXCEPT !.MxFreeDescriptor = i, !.MiEarlyAllocCount = Md.PageCount]
              ELSE b

RECURSIVE ScanFrom(_, _, _)
ScanFrom(s, list, i) ==
    IF i > Len(list) THEN s ELSE ScanFrom(ScanStep(s, list[i], i), list, i + 1)

\* the globals after MiScanMemoryDescriptors on a zeroed set of counters
MiScanMemoryDescriptorsResult(list) == ScanFrom(ScanStart, list, 1)


(* ----------------------------- state ---------------------------------- *)
VARIABLES
    pc,                     \* the routine (or loop position) about to run
    MemoryDescriptorList,   \* LoaderBlock->MemoryDescriptorListHead, in list order
    MiNumberDescriptors, MmNumberOfPhysicalPages, MmLowestPhysicalPage,
    MmHighestPhysicalPage, MiNumberOfFreePages,
    MxFreeDescriptor,       \* position in the list of the descriptor used for early allocations
    MxOldFreeDescriptor,    \* saved copy of that descriptor
    MiEarlyAllocBase, MiEarlyAllocCount,
    BugCheck,               \* <<>> or the KeBugCheckEx code and its four arguments
    PageTable,              \* PageTable[k][l]: the entry <<k, l>>
    MmPfnDatabase,          \* the PFN array, by frame
    MmFreePagesByColor,     \* heads of the free-page color table
    FreeChain,              \* per color, the frames linked on the free list, head first
    ListEntry,              \* loop cursor of MiMapPfnDatabase
    EarlyAllocLog,          \* history: <<first frame, count>> of every successful early allocation
    FreeInsertLog,          \* history: frames handed to MiInsertPageInFreeList, in order
    ResidueReclaims,        \* history: how often the residue loop of MiMapPfnDatabase ran
    UnmappedWrites,         \* history: frames whose PFN entry was written on an unmapped page
    RequestedPageCount,     \* history: the argument of the latest MiEarlyAllocPages call
    MmMaximumNonPagedPoolInBytes, MmNonPagedSystemStart,
    MmSizeOfPagedPoolInBytes, MmSizeOfPagedPoolInPages,
    MmPlentyFreePages, MmLowMemoryThreshold, MmHighMemoryThreshold,
    MmAvailablePages,
    EventSignaled,          \* per event object, KeReadStateEvent of it
    EventCalls,             \* history: KeSetEvent/KeClearEvent calls of the latest evaluation
    IncludeType,            \* the memory types with IncludeType[type] = TRUE
    MmPhysicalMemoryBlock,  \* NULL or [NumberOfRuns, NumberOfPages, Run]
    MiPfnBitMap,            \* the set bits of the PFN bitmap
    Pcr,                    \* KeGetPcr(): SecondLevelCacheSize, SecondLevelCacheAssociativity
    ColorInformation,       \* MmSecondaryColors, MmSecondaryColorMask, the PRCB's copy of the mask
    SystemTuning,           \* the sizing globals MmArmInitSystem tunes after the PFN bitmap
    ArmInitResult,          \* what MmArmInitSystem has returned, or NotReturned
    MmPagedPoolInfo,        \* first and last PTE, next PDE for expansion, the two bitmaps
    PagedPoolPdes,          \* the PDEs from MiAddressToPde(MmPagedPoolStart) on
    MiLowPagedPoolThreshold, MiHighPagedPoolThreshold,
    \* MiCreateMemoryEvent: its arguments, locals and what it holds
    CreateEvent

scanVars == <<MiNumberDescriptors, MmNumberOfPhysicalPages, MmLowestPhysicalPage,
              MmHighestPhysicalPage, MiNumberOfFreePages, MxFreeDescriptor,
              MxOldFreeDescriptor>>
allocVars == <<MiEarlyAllocBase, MiEarlyAllocCount, EarlyAllocLog>>
pfnVars == <<PageTable, MmPfnDatabase, MmFreePagesByColor, FreeChain, ListEntry,
             FreeInsertLog, ResidueReclaims, UnmappedWrites>>
poolVars == <<MmMaximumNonPagedPoolInBytes, MmNonPagedSystemStart,
              MmSizeOfPagedPoolInBytes, MmSizeOfPagedPoolInPages>>
thresholdVars == <<MmPlentyFreePages, MmLowMemoryThreshold, MmHighMemoryThreshold>>
\* what the routines of MiInitializePfnDatabase never touch
nonPfnVars == <<RequestedPageCount, poolVars, thresholdVars>>
eventVars == <<MmAvailablePages, EventSignaled, EventCalls>>
\* what the routines of the bootstrap allocator, the PFN database, the paged pool sizing
\* and the threshold computation never touch
limitsVars == <<IncludeType, MmPhysicalMemoryBlock, MiPfnBitMap>>
\* what MiInitializeMemoryEvents and MiNotifyMemoryEvents never touch either
colorVars == <<Pcr, ColorInformation>>
residentVars == <<SystemTuning, ArmInitResult>>
pagedPoolVars == <<MmPagedPoolInfo, PagedPoolPdes, MiLowPagedPoolThreshold,
                   MiHighPagedPoolThreshold>>
createVars == <<CreateEvent>>
lateVars == <<residentVars, pagedPoolVars, createVars>>
phaseVars == <<limitsVars, colorVars, lateVars>>
otherVars == <<eventVars, phaseVars>>
vars == <<pc, MemoryDescriptorList, scanVars, allocVars, BugCheck, pfnVars, nonPfnVars,
          otherVars>>

(* ------------------------ physical layout ----------------------------- *)
\* the loader's own data: the page table of the PFN array, the page directory
\* and the page table of the last PDE (HAL), in one LoaderMemoryData descriptor
PtFrame == VarFrames
PdFrame == VarFrames + 1
HalPtFrame == VarFrames + 2
MaxFrame == HalPtFrame
Frames == 0..MaxFrame

MmSecondaryColors == 2 ^ ColorBits
MmSecondaryColorMask == MmSecondaryColors - 1
Colors == 0..(MmSecondaryColors - 1)
\* PFN entries' worth of space taken by MmFreePagesByColor[0] and [1] together:
\* 2 * MmSecondaryColors * sizeof(MMCOLOR_TABLES), an MMCOLOR_TABLES being half an MMPFN
ColorTableUnits == MmSecondaryColors

\* page of the PFN array (index of its PTE in the page table) holding entry i
PfnPageOf(i) == i \div PfnPerPage

(* --------------------------- page tables ------------------------------ *)
PfnTable == 0      \* PDE of the page table mapping MmPfnDatabase
SelfPde == 1       \* PDE of PTE_BASE: maps the page directory itself
LastPde == 2       \* PDE of 0xFFFFFFFF
Pdes == 0..2
\* PTEs of the PFN array and the color tables for any MmHighestPhysicalPage
NumDbPages == PfnPageOf(MaxFrame + ColorTableUnits) + 1
\* a PTE of a page the loader mapped (kernel image, stacks, ...)
KernSlot == NumDbPages
Slots == 0..KernSlot

InvalidPte == [Valid |-> 0, PageFrameNumber |-> 0]
ValidKernelPte(f) == [Valid |-> 1, PageFrameNumber |-> f]
NullPte == <<>>

\* MiAddressToPte(&MmPfnDatabase[i])
PfnEntryPte(i) == <<PfnTable, PfnPageOf(i)>>
\* MiAddressToPte(PointerPte) and MiAddressToPde(MiPteToAddress(PointerPte)):
\* the PDE of the page table that holds PointerPte
PdeOfPte(pte) == <<SelfPde, pte[1]>>
\* MmIsAddressValid of an address in the PFN array
PfnAddressValid(pt, i) == pt[PfnTable][PfnPageOf(i)].Valid = 1

(* ---------------------------- PFN entries ----------------------------- *)
ZeroPfn ==
    [PteAddress |-> NullPte, PteFrame |-> 0, ShareCount |-> 0, ReferenceCount |-> 0,
     PageLocation |-> "ZeroedPageList", CacheAttribute |-> "MiNonCached",
     Rom |-> 0, PrototypePte |-> 0]

\* RtlZeroMemory(MiPteToAddress(PointerPte), PAGE_SIZE) on page j of the PFN array
ZeroPfnPage(pfn, j) ==
    [f \in DOMAIN pfn |-> IF PfnPageOf(f) = j THEN ZeroPfn ELSE pfn[f]]

(* ------------------------- MiEarlyAllocPages -------------------------- *)
\* a test that also refuses the request that takes the last pages
EarlyAllocExhaustedOrLast(PageCount, Remaining) == PageCount >= Remaining

\* the test guarding KeBugCheckEx(INSTALL_MORE_MEMORY, ...)
EarlyAllocExhausted(PageCount, Remaining) == PageCount > Remaining

\* an allocator that forgets to advance its base
MiEarlyAllocPagesSameBase(PageCount, Base, Count) ==
    IF EarlyAllocExhausted(PageCount, Count)
    THEN [Halted |-> TRUE, Pfn |-> NoPage, Base |-> Base, Count |-> Count]
    ELSE [Halted |-> FALSE, Pfn |-> Base, Base |-> Base, Count |-> Count - PageCount]

\* result of MiEarlyAllocPages(PageCount) with the allocator at Base/Count
MiEarlyAllocPages(PageCount, Base, Count) ==
    IF EarlyAllocExhausted(PageCount, Count)
    THEN [Halted |-> TRUE, Pfn |-> NoPage, Base |-> Base, Count |-> Count]
    ELSE [Halted |-> FALSE, Pfn |-> Base, Base |-> Base + PageCount,
          Count |-> Count - PageCount]

\* the arguments of the bugcheck raised by MiEarlyAllocPages
InstallMoreMemory(Total, Remaining, DescriptorPages, PageCount) ==
    <<"INSTALL_MORE_MEMORY", Total, Remaining, DescriptorPages, PageCount>>

(* ------------------------ free-list insertion ------------------------- *)
\* color of a page: PageFrameIndex & MmSecondaryColorMask
ColorOf(f) == f % MmSecondaryColors

LIST_HEAD == -1    \* 0xFFFFFFFF, the empty link

EmptyColorTable == [c \in Colors |-> [Flink |-> LIST_HEAD, Count |-> 0]]
EmptyChain == [c \in Colors |-> <<>>]

\* where MiInsertPageInFreeList links the page into the list of its color
LinkIntoChain(f, chain) == <<f>> \o chain

\* MiInsertPageInFreeList(PageFrameIndex): the state is [Pfn, Heads, Chain, Log]
MiInsertPageInFreeList(s, f) ==
    LET c == ColorOf(f) IN
    [s EXCEPT !.Pfn[f].PageLocation = "FreePageList",
              !.Pfn[f].ShareCount = 0,
              !.Pfn[f].ReferenceCount = 0,
              !.Chain[c] = LinkIntoChain(f, @),
              !.Heads[c] = [Flink |-> f, Count |-> @.Count + 1],
              !.Log = Append(@, f)]

\* what the loops of MiMapPfnDatabase do to one page before inserting it
SetNonCachedAndInsert(s, f) ==
    MiInsertPageInFreeList([s EXCEPT !.Pfn[f].CacheAttribute = "MiNonCached"], f)

\* the same pages visited low to high
RECURSIVE InsertForwards(_, _, _)
InsertForwards(s, PageFrameIndex, PageCount) ==
    IF PageCount = 0 THEN s
    ELSE SetNonCachedAndInsert(InsertForwards(s, PageFrameIndex - 1, PageCount - 1),
                               PageFrameIndex)

\* "while (PageCount--)" from PageFrameIndex downwards: the frames are visited high to low
RECURSIVE InsertBackwards(_, _, _)
InsertBackwards(s, PageFrameIndex, PageCount) ==
    IF PageCount = 0 THEN s
    ELSE InsertBackwards(SetNonCachedAndInsert(s, PageFrameIndex),
                         PageFrameIndex - 1, PageCount - 1)

\* first page inserted by the loop over a free descriptor
LastPageOf(BasePage, PageCount) == BasePage + PageCount - 1

(* ------------------- mapping pages of the PFN array ------------------- *)
\* The loop "while (PointerPte <= LastPte)" of MiMapPfnDatabase and of
\* MiInitializeColorTables over the PTEs j .. last of the PFN array.
\* The state is [Pt, Pfn, Base, Count, Log, Bug]; it stops at a bugcheck.
RECURSIVE MapPtes(_, _, _, _, _)
MapPtes(s, j, last, Total, DescriptorPages) ==
    IF j > last THEN s
    ELSE IF s.Pt[PfnTable][j].Valid # 0
         THEN MapPtes(s, j + 1, last, Total, DescriptorPages)
    ELSE LET r == MiEarlyAllocPages(1, s.Base, s.Count) IN
         IF r.Halted
         THEN [s EXCEPT !.Bug = InstallMoreMemory(Total, s.Count, DescriptorPages, 1)]
         ELSE MapPtes([s EXCEPT !.Pt[PfnTable][j] = ValidKernelPte(r.Pfn),
                                !.Pfn = ZeroPfnPage(@, j),
                                !.Base = r.Base, !.Count = r.Count,
                                !.Log = Append(@, <<r.Pfn, 1>>)],
                      j + 1, last, Total, DescriptorPages)

\* a last PTE that is the PTE of the descriptor's first entry
FirstPfnPageOf(BasePage, PageCount) == PfnPageOf(BasePage)

\* LastPte of a descriptor: MiAddressToPte(((ULONG_PTR)&MmPfnDatabase[BasePage + PageCount]) - 1)
LastPfnPageOf(BasePage, PageCount) == PfnPageOf(BasePage + PageCount - 1)

(* --------------------------- MiMapPfnDatabase -------------------------- *)
\* an in-use entry whose share count is left as it was
MarkInUseUnshared(e) ==
    [e EXCEPT !.PteFrame = 0, !.PteAddress = NullPte,
              !.ReferenceCount = 1, !.PageLocation = "ActiveAndValid",
              !.CacheAttribute = "MiNonCached"]

\* "Mark it as being in-use"
MarkInUse(e) ==
    [e EXCEPT !.PteFrame = 0, !.PteAddress = NullPte, !.ShareCount = @ + 1,
              !.ReferenceCount = 1, !.PageLocation = "ActiveAndValid",
              !.CacheAttribute = "MiNonCached"]

\* "Make it a pseudo-I/O ROM mapping"; PageLocation 0 is ZeroedPageList
MarkRom(e) ==
    [e EXCEPT !.PteAddress = NullPte, !.ShareCount = 0, !.PageLocation = "ZeroedPageList",
              !.CacheAttribute = "MiNonCached", !.Rom = 1, !.PrototypePte = 1,
              !.ReferenceCount = 0, !.PteFrame = 0]

\* the frames among Written whose PFN entry lies on a page of the PFN array that pt
\* does not map
OnUnmappedPage(pt, Written) == {f \in Written : ~PfnAddressValid(pt, f)}

\* the three-way branch on the descriptor type, for a descriptor other than MxFreeDescriptor
PopulateEntries(s, Md) ==
    IF MiIsMemoryTypeFree(Md.MemoryType)
    THEN InsertBackwards(s, LastPageOf(Md.BasePage, Md.PageCount), Md.PageCount)
    ELSE IF Md.MemoryType = "LoaderXIPRom"
    THEN [s EXCEPT !.Pfn = [f \in DOMAIN @ |->
                              IF f \in FramesOf(Md) THEN MarkRom(@[f]) ELSE @[f]]]
    ELSE [s EXCEPT !.Pfn = [f \in DOMAIN @ |->
                              IF f \in FramesOf(Md) THEN MarkInUse(@[f]) ELSE @[f]]]

CurrentMd == MemoryDescriptorList[ListEntry]
InDescriptorLoop == pc = "MiMapPfnDatabase" /\ ListEntry <= Len(MemoryDescriptorList)
InsertState == [Pfn |-> MmPfnDatabase, Heads |-> MmFreePagesByColor,
                Chain |-> FreeChain, Log |-> FreeInsertLog]
MapState == [Pt |-> PageTable, Pfn |-> MmPfnDatabase, Base |-> MiEarlyAllocBase,
             Count |-> MiEarlyAllocCount, Log |-> EarlyAllocLog, Bug |-> <<>>]

\* "Skip descriptors that are not part of the database"
SkipDescriptor ==
    /\ InDescriptorLoop
    /\ ~MiIsMemoryTypeInDatabase(CurrentMd.MemoryType)
    /\ ListEntry' = ListEntry + 1
    /\ UNCHANGED <<otherVars, nonPfnVars, pc, MemoryDescriptorList, scanVars, allocVars, BugCheck, PageTable,
                   MmPfnDatabase, MmFreePagesByColor, FreeChain, FreeInsertLog,
                   ResidueReclaims, UnmappedWrites>>

\* the PTE loop for one descriptor: map and zero the pages of the PFN array it needs
MapDescriptor ==
    /\ InDescriptorLoop
    /\ MiIsMemoryTypeInDatabase(CurrentMd.MemoryType)
    /\ LET s == MapPtes(MapState, PfnPageOf(CurrentMd.BasePage),
                        LastPfnPageOf(CurrentMd.BasePage, CurrentMd.PageCount),
                        MmNumberOfPhysicalPages,
                        MemoryDescriptorList[MxFreeDescriptor].PageCount)
       IN /\ PageTable' = s.Pt
          /\ MmPfnDatabase' = s.Pfn
          /\ MiEarlyAllocBase' = s.Base
          /\ MiEarlyAllocCount' = s.Count
          /\ EarlyAllocLog' = s.Log
          /\ BugCheck' = s.Bug
          /\ pc' = IF s.Bug # <<>> THEN "BugCheck" ELSE "PopulateDescriptor"
    /\ UNCHANGED <<otherVars, nonPfnVars, MemoryDescriptorList, scanVars, MmFreePagesByColor, FreeChain,
                   ListEntry, FreeInsertLog, ResidueReclaims, UnmappedWrites>>

\* "Skip the free descriptor, we'll handle it later"
SkipFreeDescriptor ==
    /\ pc = "PopulateDescriptor"
    /\ ListEntry = MxFreeDescriptor
    /\ pc' = "MiMapPfnDatabase"
    /\ ListEntry' = ListEntry + 1
    /\ UNCHANGED <<otherVars, nonPfnVars, MemoryDescriptorList, scanVars, allocVars, BugCheck, PageTable,
                   MmPfnDatabase, MmFreePagesByColor, FreeChain, FreeInsertLog,
                   ResidueReclaims, UnmappedWrites>>

\* ASSERT(FALSE) on a LoaderBad descriptor, in a build whose ASSERT is live
BadDescriptorAssert ==
    /\ pc = "PopulateDescriptor"
    /\ ListEntry # MxFreeDescriptor
    /\ CurrentMd.MemoryType = "LoaderBad"
    /\ pc' = "AssertFailed"
    /\ UNCHANGED <<otherVars, nonPfnVars, MemoryDescriptorList, scanVars, allocVars, BugCheck, pfnVars>>

\* the rest of the loop body; for LoaderBad this is the build whose ASSERT is compiled out
PopulateDescriptor ==
    /\ pc = "PopulateDescriptor"
    /\ ListEntry # MxFreeDescriptor
    /\ LET s == PopulateEntries(InsertState, CurrentMd)
       IN /\ MmPfnDatabase' = s.Pfn
          /\ MmFreePagesByColor' = s.Heads
          /\ FreeChain' = s.Chain
          /\ FreeInsertLog' = s.Log
    /\ UnmappedWrites' = UnmappedWrites \cup OnUnmappedPage(PageTable, FramesOf(CurrentMd))
    /\ pc' = "MiMapPfnDatabase"
    /\ ListEntry' = ListEntry + 1
    /\ UNCHANGED <<otherVars, nonPfnVars, MemoryDescriptorList, scanVars, allocVars, BugCheck, PageTable,
                   ResidueReclaims>>

\* "Now handle the remaining pages from the free descriptor"
ReclaimResidue ==
    /\ pc = "MiMapPfnDatabase"
    /\ ListEntry > Len(MemoryDescriptorList)
    /\ LET s == InsertBackwards(InsertState, MiEarlyAllocBase + MiEarlyAllocCount - 1,
                                MiEarlyAllocCount)
       IN /\ MmPfnDatabase' = s.Pfn
          /\ MmFreePagesByColor' = s.Heads
          /\ FreeChain' = s.Chain
          /\ FreeInsertLog' = s.Log
    /\ ResidueReclaims' = ResidueReclaims + 1
    /\ UnmappedWrites' =
         UnmappedWrites \cup
           OnUnmappedPage(PageTable,
                          MiEarlyAllocBase..(MiEarlyAllocBase + MiEarlyAllocCount - 1))
    /\ pc' = "MiInitializeColorTables"
    /\ UNCHANGED <<otherVars, nonPfnVars, MemoryDescriptorList, scanVars, allocVars, BugCheck, PageTable, ListEntry>>

(* ------------------------ MiInitializeColorTables ---------------------- *)
\* map the pages of the color tables, which start at &MmPfnDatabase[MmHighestPhysicalPage + 1],
\* then set up every list head as empty
MiInitializeColorTables ==
    /\ pc = "MiInitializeColorTables"
    /\ LET s == MapPtes(MapState, PfnPageOf(MmHighestPhysicalPage + 1),
                        PfnPageOf(MmHighestPhysicalPage + ColorTableUnits),
                        MmNumberOfPhysicalPages,
                        MemoryDescriptorList[MxFreeDescriptor].PageCount)
       IN /\ PageTable' = s.Pt
          /\ MmPfnDatabase' = s.Pfn
          /\ MiEarlyAllocBase' = s.Base
          /\ MiEarlyAllocCount' = s.Count
          /\ EarlyAllocLog' = s.Log
          /\ BugCheck' = s.Bug
          /\ IF s.Bug # <<>>
             THEN pc' = "BugCheck" /\ UNCHANGED MmFreePagesByColor
             ELSE pc' = "MiBuildPfnDatabaseFromPages" /\ MmFreePagesByColor' = EmptyColorTable
    /\ UNCHANGED <<otherVars, nonPfnVars, MemoryDescriptorList, scanVars, FreeChain, ListEntry, FreeInsertLog,
                   ResidueReclaims, UnmappedWrites>>

(* ---------------------- MiBuildPfnDatabaseFromPages -------------------- *)
\* "Check if it's valid memory"
PfnEntryUsable(pt, Highest, PageFrameIndex) ==
    IF PageFrameIndex <= Highest
    THEN PfnAddressValid(pt, PageFrameIndex) /\ PfnAddressValid(pt, PageFrameIndex + 1)
    ELSE FALSE

\* the same entry with the share count left alone
StampWithoutShare(e, pt, PointerPte) ==
    [e EXCEPT !.PteAddress = PointerPte,
              !.PageLocation = "ActiveAndValid", !.CacheAttribute = "MiNonCached",
              !.ReferenceCount = 1,
              !.PteFrame = pt[PdeOfPte(PointerPte)[1]][PdeOfPte(PointerPte)[2]].PageFrameNumber]

\* "Setup the PFN entry"
StampForPageTable(e, pt, PointerPte) ==
    [e EXCEPT !.ShareCount = @ + 1, !.PteAddress = PointerPte,
              !.PageLocation = "ActiveAndValid", !.CacheAttribute = "MiNonCached",
              !.ReferenceCount = 1,
              !.PteFrame = pt[PdeOfPte(PointerPte)[1]][PdeOfPte(PointerPte)[2]].PageFrameNumber]

\* the PFN array with the count of page t left alone
KeepShareCount(pfn, t) == pfn

\* "Increase the shared count of the PFN entry for the PDE"
IncreaseShareCount(pfn, t) == [pfn EXCEPT ![t].ShareCount = @ + 1]

MiSetupPfnForPageTable(pfn, pt, Highest, PageFrameIndex, PointerPte) ==
    LET a == IF PfnEntryUsable(pt, Highest, PageFrameIndex)
             THEN [pfn EXCEPT ![PageFrameIndex] = StampForPageTable(@, pt, PointerPte)]
             ELSE pfn
        PointerPde == PdeOfPte(PointerPte)
    IN IncreaseShareCount(a, pt[PointerPde[1]][PointerPde[2]].PageFrameNumber)

\* "Loop all PTEs in this PT", from slot l of the page table of PDE k
RECURSIVE WalkPtes(_, _, _, _, _)
WalkPtes(pfn, pt, Highest, k, l) ==
    IF l > KernSlot THEN pfn
    ELSE IF pt[k][l].Valid = 0 THEN WalkPtes(pfn, pt, Highest, k, l + 1)
    ELSE WalkPtes(MiSetupPfnForPageTable(pfn, pt, Highest, pt[k][l].PageFrameNumber, <<k, l>>),
                  pt, Highest, k, l + 1)

\* "Loop all PDEs in this PD", from PDE k
RECURSIVE WalkPdes(_, _, _, _)
WalkPdes(pfn, pt, Highest, k) ==
    IF k > LastPde THEN pfn
    ELSE IF pt[SelfPde][k].Valid = 0 THEN WalkPdes(pfn, pt, Highest, k + 1)
    ELSE WalkPdes(WalkPtes(MiSetupPfnForPageTable(pfn, pt, Highest,
                                                  pt[SelfPde][k].PageFrameNumber,
                                                  <<SelfPde, k>>),
                           pt, Highest, k, 0),
                  pt, Highest, k + 1)

\* the frames whose PFN entry the walk writes: the frame of every valid entry it
\* visits that passes the check, and the frame of the PDE of every entry it visits
WalkWrites(pt, Highest) ==
    LET Visited == {e \in (Pdes \X Slots) :
                      /\ pt[SelfPde][e[1]].Valid = 1
                      /\ pt[e[1]][e[2]].Valid = 1}
        AsPde == {<<SelfPde, k>> : k \in {j \in Pdes : pt[SelfPde][j].Valid = 1}}
        Entries == Visited \cup AsPde
    IN {pt[e[1]][e[2]].PageFrameNumber :
          e \in {x \in Entries : PfnEntryUsable(pt, Highest, pt[x[1]][x[2]].PageFrameNumber)}}
         \cup {pt[SelfPde][e[1]].PageFrameNumber : e \in Entries}

MiBuildPfnDatabaseFromPages ==
    /\ pc = "MiBuildPfnDatabaseFromPages"
    /\ MmPfnDatabase' = WalkPdes(MmPfnDatabase, PageTable, MmHighestPhysicalPage, 0)
    /\ UnmappedWrites' =
         UnmappedWrites \cup OnUnmappedPage(PageTable, WalkWrites(PageTable, MmHighestPhysicalPage))
    /\ pc' = "MiBuildPfnDatabaseZeroPage"
    /\ UNCHANGED <<otherVars, nonPfnVars, MemoryDescriptorList, scanVars, allocVars, BugCheck, PageTable,
                   MmFreePagesByColor, FreeChain, ListEntry, FreeInsertLog, ResidueReclaims>>

(* ----------------------- MiBuildPfnDatabaseZeroPage -------------------- *)
PinnedReferenceCount == 65520

\* "Grab the lowest page and check if it has no real references"
ZeroPageIsUnreferenced(Lowest, e) == Lowest = 0 /\ e.ReferenceCount = 0

\* "Make it a bogus page to catch errors"
MarkBogus(e, pt) ==
    [e EXCEPT !.PteFrame = pt[SelfPde][LastPde].PageFrameNumber,
              !.PteAddress = <<SelfPde, LastPde>>,
              !.ShareCount = @ + 1, !.ReferenceCount = PinnedReferenceCount,
              !.PageLocation = "ActiveAndValid", !.CacheAttribute = "MiNonCached"]

MiBuildPfnDatabaseZeroPage ==
    /\ pc = "MiBuildPfnDatabaseZeroPage"
    /\ MmPfnDatabase' =
         IF ZeroPageIsUnreferenced(MmLowestPhysicalPage, MmPfnDatabase[MmLowestPhysicalPage])
         THEN [MmPfnDatabase EXCEPT ![MmLowestPhysicalPage] = MarkBogus(@, PageTable)]
         ELSE MmPfnDatabase
    /\ UnmappedWrites' =
         UnmappedWrites \cup
           OnUnmappedPage(PageTable,
                          IF ZeroPageIsUnreferenced(MmLowestPhysicalPage,
                                                    MmPfnDatabase[MmLowestPhysicalPage])
                          THEN {MmLowestPhysicalPage} ELSE {})
    /\ pc' = "MiBuildPfnDatabaseSelf"
    /\ UNCHANGED <<otherVars, nonPfnVars, MemoryDescriptorList, scanVars, allocVars, BugCheck, PageTable,
                   MmFreePagesByColor, FreeChain, ListEntry, FreeInsertLog, ResidueReclaims>>

(* ------------------------- MiBuildPfnDatabaseSelf ---------------------- *)
\* "Get the PFN entry and just mark it referenced"
MarkReferenced(e) == [e EXCEPT !.ShareCount = 1, !.ReferenceCount = 1]

\* the loop over the PTEs j .. last of the PFN array
RECURSIVE SelfPtes(_, _, _, _)
SelfPtes(pfn, pt, j, last) ==
    IF j > last THEN pfn
    ELSE IF pt[PfnTable][j].Valid = 1
    THEN SelfPtes([pfn EXCEPT ![pt[PfnTable][j].PageFrameNumber] = MarkReferenced(@)],
                  pt, j + 1, last)
    ELSE SelfPtes(pfn, pt, j + 1, last)

\* the frames MiBuildPfnDatabaseSelf marks: those of the valid PTEs j .. last
SelfFrames(pt, j, last) ==
    {pt[PfnTable][i].PageFrameNumber : i \in {x \in j..last : pt[PfnTable][x].Valid = 1}}

MiBuildPfnDatabaseSelf ==
    /\ pc = "MiBuildPfnDatabaseSelf"
    /\ UnmappedWrites' =
         UnmappedWrites \cup
           OnUnmappedPage(PageTable,
                          SelfFrames(PageTable, PfnPageOf(MmLowestPhysicalPage),
                                     PfnPageOf(MmHighestPhysicalPage)))
    /\ MmPfnDatabase' = SelfPtes(MmPfnDatabase, PageTable, PfnPageOf(MmLowestPhysicalPage),
                                 PfnPageOf(MmHighestPhysicalPage))
    /\ pc' = "Done"
    /\ UNCHANGED <<otherVars, nonPfnVars, MemoryDescriptorList, scanVars, allocVars, BugCheck, PageTable,
                   MmFreePagesByColor, FreeChain, ListEntry, FreeInsertLog, ResidueReclaims>>

(* ------------------- the loader's memory descriptor list --------------- *)
\* memory types of the variable part of the list
DescriptorTypes == {"LoaderFree", "LoaderBad", "LoaderXIPRom", "LoaderFirmwarePermanent"}

Descriptors ==
    {d \in [MemoryType : DescriptorTypes, BasePage : 0..(VarFrames - 1),
            PageCount : 1..MaxPageCount] :
       d.BasePage + d.PageCount <= VarFrames}

\* the loader never describes a page twice
Disjoint(list) ==
    \A i, j \in 1..Len(list) : i # j => FramesOf(list[i]) \cap FramesOf(list[j]) = {}

\* page tables and page directory set up by the loader
LoaderData == [MemoryType |-> "LoaderMemoryData", BasePage |-> PtFrame, PageCount |-> 3]

\* the lists of at most n descriptors that describe no page twice
RECURSIVE DisjointLists(_)
DisjointLists(n) ==
    IF n = 0 THEN {<<>>}
    ELSE LET Shorter == DisjointLists(n - 1) IN
         Shorter \cup UNION {{Append(q, x) : x \in {d \in Descriptors : Disjoint(Append(q, d))}} :
                             q \in Shorter}

\* lists with at least one free descriptor, so that MxFreeDescriptor is set
DescriptorLists ==
    {q \o <<LoaderData>> : q \in {r \in DisjointLists(MaxDescriptors) :
        \E i \in 1..Len(r) : MiIsMemoryTypeFree(r[i].MemoryType)}}

\* what the PTE of a page mapped by the loader can hold
LoaderPtes == {InvalidPte} \cup {ValidKernelPte(f) : f \in (0..(VarFrames - 1)) \cup {MaxFrame + 1}}

\* the page tables as the loader leaves them; kpte is the entry <<PfnTable, KernSlot>>
LoaderPageTable(kpte) ==
    [k \in Pdes |->
       [l \in Slots |->
          IF k = SelfPde
          THEN (IF l = PfnTable THEN ValidKernelPte(PtFrame)
                ELSE IF l = SelfPde THEN ValidKernelPte(PdFrame)
                ELSE IF l = LastPde THEN ValidKernelPte(HalPtFrame)
                ELSE InvalidPte)
          ELSE IF k = PfnTable /\ l = KernSlot THEN kpte
          ELSE InvalidPte]]

\* the globals as MiScanMemoryDescriptors leaves them for the list, the total aside
ScannedDescriptors(list) ==
    LET s == MiScanMemoryDescriptorsResult(list) IN
    /\ MemoryDescriptorList = list
    /\ MiNumberDescriptors = s.MiNumberDescriptors
    /\ MmLowestPhysicalPage = s.MmLowestPhysicalPage
    /\ MmHighestPhysicalPage = s.MmHighestPhysicalPage
    /\ MiNumberOfFreePages = s.MiNumberOfFreePages
    /\ MxFreeDescriptor = s.MxFreeDescriptor
    /\ MxOldFreeDescriptor = list[s.MxFreeDescriptor]
    /\ MiEarlyAllocBase = list[s.MxFreeDescriptor].BasePage
    /\ MiEarlyAllocCount = s.MiEarlyAllocCount

\* all the globals MiScanMemoryDescriptors sets
ScannedGlobals(list) ==
    /\ ScannedDescriptors(list)
    /\ MmNumberOfPhysicalPages = MiScanMemoryDescriptorsResult(list).MmNumberOfPhysicalPages

\* a list for the systems in which the descriptors play no part
PlainList == <<[MemoryType |-> "LoaderFree", BasePage |-> 0, PageCount |-> MaxPageCount],
               LoaderData>>

\* the PFN database before MiInitializePfnDatabase; kpte is the loader's own mapping
PfnDatabaseUnbuilt(kpte) ==
    /\ PageTable = LoaderPageTable(kpte)
    /\ MmPfnDatabase = [f \in Frames |-> ZeroPfn]
    /\ MmFreePagesByColor = EmptyColorTable
    /\ FreeChain = EmptyChain
    /\ ListEntry = 1
    /\ EarlyAllocLog = <<>>
    /\ FreeInsertLog = <<>>
    /\ ResidueReclaims = 0
    /\ UnmappedWrites = {}
    /\ BugCheck = <<>>

\* the pool sizes as the image initializes them: zeroed (.bss)
PoolUnsized ==
    /\ MmMaximumNonPagedPoolInBytes = 0
    /\ MmNonPagedSystemStart = 0
    /\ MmSizeOfPagedPoolInBytes = 0
    /\ MmSizeOfPagedPoolInPages = 0

\* PFN_NUMBER MmPlentyFreePages = 400
InitialPlentyFreePages == 400

\* no registry setting for the memory thresholds
ThresholdsUnset ==
    /\ MmPlentyFreePages = InitialPlentyFreePages
    /\ MmLowMemoryThreshold = 0
    /\ MmHighMemoryThreshold = 0

(* ---------------------------- memory events --------------------------- *)
\* the event objects MiInitializeMemoryEvents creates for the two thresholds
MiLowMemoryEvent == "LowMemoryCondition"
MiHighMemoryEvent == "HighMemoryCondition"
MemoryEvents == {MiLowMemoryEvent, MiHighMemoryEvent}

\* ZwCreateEvent(..., NotificationEvent, FALSE): created not signaled
EventsCreated ==
    /\ EventSignaled = [e \in MemoryEvents |-> FALSE]
    /\ EventCalls = 0

KeSetEvent(Signaled, e) == [Signaled EXCEPT ![e] = TRUE]
KeClearEvent(Signaled, e) == [Signaled EXCEPT ![e] = FALSE]

\* if (KeReadStateEvent(e)) KeClearEvent(e);  st carries the events and the call count
ClearIfSignaled(st, e) ==
    IF st.Signaled[e]
    THEN [Signaled |-> KeClearEvent(st.Signaled, e), Calls |-> st.Calls + 1]
    ELSE st

\* if (!KeReadStateEvent(e)) KeSetEvent(e, 0, FALSE);
SetIfNotSignaled(st, e) ==
    IF ~st.Signaled[e]
    THEN [Signaled |-> KeSetEvent(st.Signaled, e), Calls |-> st.Calls + 1]
    ELSE st

\* a comparison that also takes the threshold itself
AtOrBelowThreshold(Available, Threshold) == Available <= Threshold

\* MmAvailablePages < threshold
BelowThreshold(Available, Threshold) == Available < Threshold

\* the events after MiNotifyMemoryEvents, with the number of set and clear calls it made
MemoryEventsAfterNotify(Available, Low, High, Signaled) ==
    LET st == [Signaled |-> Signaled, Calls |-> 0] IN
    IF BelowThreshold(Available, Low)
    THEN SetIfNotSignaled(ClearIfSignaled(st, MiHighMemoryEvent), MiLowMemoryEvent)
    ELSE IF BelowThreshold(Available, High)
    THEN ClearIfSignaled(ClearIfSignaled(st, MiHighMemoryEvent), MiLowMemoryEvent)
    ELSE SetIfNotSignaled(ClearIfSignaled(st, MiLowMemoryEvent), MiHighMemoryEvent)

\* the null pointer, as a value that compares with a memory block
NULL == [Null |-> TRUE]

\* every memory type a descriptor of the model can have
ModelledTypes == DescriptorTypes \cup {LoaderData.MemoryType}

\* "memory that we don't consider RAM/usable"
NotIncludedTypes ==
    {"LoaderBad", "LoaderFirmwarePermanent", "LoaderSpecialMemory", "LoaderBBTMemory"}

\* IncludeType[] as MmArmInitSystem fills it in on entry
ArmInitIncludeType == ModelledTypes \ NotIncludedTypes

\* before MmArmInitSystem builds the physical memory block and the PFN bitmap
LimitsUnbuilt ==
    /\ IncludeType = ArmInitIncludeType
    /\ MmPhysicalMemoryBlock = NULL
    /\ MiPfnBitMap = {}

\* the state of the later phases before they run
\* ULONG MmSecondaryColors, MmSecondaryColorMask before MiComputeColorInformation: zeroed
\* (.bss), no setting provided; RawColors records the count found at the conversion to pages
NoColorInformation ==
    [MmSecondaryColors |-> 0, MmSecondaryColorMask |-> 0, SecondaryColorMask |-> 0,
     RawColors |-> 0]

\* a processor that reports no second-level cache
NoCache == [SecondLevelCacheSize |-> 0, SecondLevelCacheAssociativity |-> 0]

ColorsUncomputed ==
    /\ Pcr = NoCache
    /\ ColorInformation = NoColorInformation

\* MmArmInitSystem before it returns
NotReturned == [Returned |-> FALSE]

\* MmSystemCacheWsMinimum = 288, MmMinimumFreePages = 26, the rest zeroed (.bss);
\* Signed tells whether the build declares MmResidentAvailablePages as a signed count
UntunedSystem ==
    [MmResidentAvailablePages |-> 0, MmResidentAvailableAtInit |-> 0,
     MiExpansionPoolPagesInitialCharge |-> 0, MmSystemCacheWsMinimum |-> 288,
     MmSystemSize |-> "MmSmallSystem", MmProductType |-> "WinNt",
     NtProductType |-> "None", MmMinimumFreePages |-> 26, Signed |-> TRUE]

ResidentUntuned ==
    /\ SystemTuning = UntunedSystem
    /\ ArmInitResult = NotReturned

\* MmPagedPoolInfo before MiBuildPagedPool: zeroed (.bss)
NoPagedPoolInfo ==
    [FirstPteForPagedPool |-> NULL, LastPteForPagedPool |-> NULL,
     NextPdeForPagedPoolExpansion |-> NULL, PagedPoolAllocationMap |-> NULL,
     EndOfPagedPoolBitmap |-> NULL]

\* number of PDEs followed from the first PDE of paged pool on
MaxPoolPdes == 13
PoolPdeIndexes == 0..(MaxPoolPdes - 1)

\* the paged pool before MiBuildPagedPool, its PDEs all holding the value Pde
PagedPoolUnbuilt(Pde) ==
    /\ MmPagedPoolInfo = NoPagedPoolInfo
    /\ PagedPoolPdes = [j \in PoolPdeIndexes |-> Pde]
    /\ MiLowPagedPoolThreshold = 0
    /\ MiHighPagedPoolThreshold = 0

\* MiCreateMemoryEvent entered for Name: no status yet, no DACL, no handle, *Event unset
EnteredFor(Name) ==
    [Name |-> Name, Status |-> NULL, Dacl |-> "Unallocated", Frees |-> 0, Aces |-> <<>>,
     DaclInDescriptor |-> FALSE, EventHandle |-> "None", Event |-> NULL,
     Failed |-> {}]

NoEventCreation == CreateEvent = EnteredFor(NULL)

LateIdle == ResidentUntuned /\ PagedPoolUnbuilt(InvalidPte) /\ NoEventCreation

PhasesIdle == LimitsUnbuilt /\ ColorsUncomputed /\ LateIdle

\* the state the other routines leave alone, before anything uses it
OthersIdle ==
    /\ MmAvailablePages = 0
    /\ EventsCreated
    /\ PhasesIdle

(* ---------------------- MmInitializeMemoryLimits ---------------------- *)
\* Run = 0, NextPage = -1, PageCount = 0
LimitsStart == [Run |-> <<>>, NextPage |-> NoPage, PageCount |-> 0]

\* a test that never finds the next page described by the next descriptor
NeverContinuesRun(Md, NextPage) == FALSE

\* "Check if the next page is described by the next descriptor"
ContinuesRun(Md, NextPage) == Md.BasePage = NextPage

\* a combination that leaves the run as it was
KeepRun(Run, Md) == Run

\* "Combine it into the same physical run": Buffer->Run[Run - 1].PageCount += PageCount
ExtendRun(Run, Md) == [Run EXCEPT ![Len(Run)].PageCount = @ + Md.PageCount]

\* one iteration of the loop over the descriptor list
LimitsStep(s, Md, Included) ==
    IF Md.MemoryType \notin Included THEN s
    ELSE IF ContinuesRun(Md, s.NextPage)
    THEN [Run |-> ExtendRun(s.Run, Md),
          NextPage |-> s.NextPage + Md.PageCount,
          PageCount |-> s.PageCount + Md.PageCount]
    ELSE [Run |-> Append(s.Run, [BasePage |-> Md.BasePage, PageCount |-> Md.PageCount]),
          NextPage |-> Md.BasePage + Md.PageCount,
          PageCount |-> s.PageCount + Md.PageCount]

RECURSIVE LimitsFrom(_, _, _, _)
LimitsFrom(s, list, i, Included) ==
    IF i > Len(list) THEN s
    ELSE LimitsFrom(LimitsStep(s, list[i], Included), list, i + 1, Included)

\* the block MmInitializeMemoryLimits returns when its first allocation succeeds
PhysicalMemoryDescriptor(list, Included) ==
    LET s == LimitsFrom(LimitsStart, list, 1, Included) IN
    [NumberOfRuns |-> Len(s.Run), NumberOfPages |-> s.PageCount, Run |-> s.Run]

(* ----------------------------- the PFN bitmap -------------------------- *)
\* RtlSetBits(&MiPfnBitMap, Run->BasePage, Run->PageCount) with nothing set
KeepBits(Bits, Run) == Bits

\* "Make sure it has pages inside it", then RtlSetBits
SetRunBits(Bits, Run) ==
    IF Run.PageCount # 0
    THEN Bits \cup (Run.BasePage .. (Run.BasePage + Run.PageCount - 1))
    ELSE Bits

\* the loop over the physical memory runs, from run i on
RECURSIVE SetBitsOfRuns(_, _, _)
SetBitsOfRuns(Bits, Block, i) ==
    IF i > Block.NumberOfRuns THEN Bits
    ELSE SetBitsOfRuns(SetRunBits(Bits, Block.Run[i]), Block, i + 1)

\* the fourth argument of the bugcheck for a missing PFN bitmap
NoPfnBitMap == 257

\* MmArmInitSystem from the physical memory block to the PFN bitmap.  The block is
\* used unchecked, so a NULL one stops the system on the first access; a missing
\* bitmap buffer is a bugcheck
MmArmInitSystemPfnBitMap ==
    /\ pc = "Done"
    /\ \/ /\ MmPhysicalMemoryBlock' = NULL
          /\ pc' = "NullDereference"
          /\ UNCHANGED <<MiPfnBitMap, BugCheck>>
       \/ /\ MmPhysicalMemoryBlock' = PhysicalMemoryDescriptor(MemoryDescriptorList, IncludeType)
          /\ \/ /\ BugCheck' = <<"INSTALL_MORE_MEMORY", MmNumberOfPhysicalPages,
                                  MmLowestPhysicalPage, MmHighestPhysicalPage, NoPfnBitMap>>
                /\ pc' = "BugCheck"
                /\ UNCHANGED MiPfnBitMap
             \/ /\ MiPfnBitMap' = SetBitsOfRuns({}, MmPhysicalMemoryBlock', 1)
                /\ pc' = "PfnBitMapBuilt"
                /\ UNCHANGED BugCheck
    /\ UNCHANGED <<IncludeType, colorVars, lateVars, eventVars, MemoryDescriptorList, scanVars, allocVars,
                   pfnVars, nonPfnVars>>

(* -------------------- MiInitializePfnDatabase as a system -------------- *)
InitPfn ==
    /\ \E list \in DescriptorLists : ScannedGlobals(list)
    /\ \E kpte \in LoaderPtes : PfnDatabaseUnbuilt(kpte)
    /\ RequestedPageCount = 0
    /\ PoolUnsized
    /\ ThresholdsUnset
    /\ OthersIdle
    /\ pc = "MiMapPfnDatabase"

NextPfn ==
    \/ SkipDescriptor
    \/ MapDescriptor
    \/ SkipFreeDescriptor
    \/ BadDescriptorAssert
    \/ PopulateDescriptor
    \/ ReclaimResidue
    \/ MiInitializeColorTables
    \/ MiBuildPfnDatabaseFromPages
    \/ MiBuildPfnDatabaseZeroPage
    \/ MiBuildPfnDatabaseSelf
    \/ MmArmInitSystemPfnBitMap

SpecPfn == InitPfn /\ [][NextPfn]_vars

(* ----------------------- MiEarlyAllocPages as a system ----------------- *)
\* number of calls after which the callers stop asking
MaxCalls == 4

InitEarlyAlloc ==
    /\ \E list \in DescriptorLists : ScannedGlobals(list)
    /\ PfnDatabaseUnbuilt(InvalidPte)
    /\ RequestedPageCount = 0
    /\ PoolUnsized
    /\ ThresholdsUnset
    /\ OthersIdle
    /\ pc = "MiEarlyAllocPages"

\* one call MiEarlyAllocPages(PageCount)
EarlyAlloc(PageCount) ==
    /\ pc = "MiEarlyAllocPages"
    /\ Len(EarlyAllocLog) < MaxCalls
    /\ RequestedPageCount' = PageCount
    /\ LET r == MiEarlyAllocPages(PageCount, MiEarlyAllocBase, MiEarlyAllocCount)
       IN IF r.Halted
          THEN /\ BugCheck' = InstallMoreMemory(MmNumberOfPhysicalPages, MiEarlyAllocCount,
                                                 MemoryDescriptorList[MxFreeDescriptor].PageCount,
                                                 PageCount)
               /\ pc' = "BugCheck"
               /\ UNCHANGED allocVars
          ELSE /\ MiEarlyAllocBase' = r.Base
               /\ MiEarlyAllocCount' = r.Count
               /\ EarlyAllocLog' = Append(EarlyAllocLog, <<r.Pfn, PageCount>>)
               /\ UNCHANGED <<pc, BugCheck>>
    /\ UNCHANGED <<otherVars, MemoryDescriptorList, scanVars, pfnVars, poolVars, thresholdVars>>

NextEarlyAlloc == \E PageCount \in 0..MaxRequest : EarlyAlloc(PageCount)

SpecEarlyAlloc == InitEarlyAlloc /\ [][NextEarlyAlloc]_vars

(* ===================== properties of the PFN database ================== *)
\* frames MiEarlyAllocPages has handed out so far
AllocatedFrames == UNION {e[1]..(e[1] + e[2] - 1) : e \in Range(EarlyAllocLog)}
\* frames MiInsertPageInFreeList has been called on so far
InsertedFrames == Range(FreeInsertLog)
\* frames of the descriptor chosen for early allocations
BootstrapFrames == FramesOf(MxOldFreeDescriptor)

\* C1: in every state reached during MiInitializePfnDatabase no frame is both a frame
\* handed out by MiEarlyAllocPages and a frame inserted on the free list, and the
\* residue has been reclaimed at most once
C1_NoFrameAllocatedAndFree ==
    /\ AllocatedFrames \cap InsertedFrames = {}
    /\ ResidueReclaims <= 1

Ascending(q) == \A i, j \in 1..Len(q) : i < j => q[i] < q[j]

\* MiMapPfnDatabase has returned
AfterReclaim == ResidueReclaims = 1

\* position in the list of the descriptor that describes frame f
DescriptorOf(f) ==
    CHOOSE i \in 1..Len(MemoryDescriptorList) : f \in FramesOf(MemoryDescriptorList[i])

\* when the frames of descriptor i are inserted: in list order, the residue of
\* MxFreeDescriptor after all others
InsertionRank(i) == IF i = MxFreeDescriptor THEN Len(MemoryDescriptorList) + 1 ELSE i

\* C2 as stated: after MiMapPfnDatabase has processed every descriptor and reclaimed the
\* residue, each per-color free list (insertion at the head) is in ascending PPN order
C2_AscendingPerColor == AfterReclaim => \A c \in Colors : Ascending(FreeChain[c])

\* C2 amended: after MiMapPfnDatabase, in each per-color free list the frames of one
\* descriptor are in ascending PPN order, and a frame of a descriptor inserted later
\* precedes every frame of a descriptor inserted earlier (the residue comes first)
C2_AscendingWithinDescriptor ==
    AfterReclaim =>
      \A c \in Colors : \A i, j \in 1..Len(FreeChain[c]) :
        i < j =>
          LET a == FreeChain[c][i]
              b == FreeChain[c][j]
          IN IF DescriptorOf(a) = DescriptorOf(b)
             THEN a < b
             ELSE InsertionRank(DescriptorOf(a)) > InsertionRank(DescriptorOf(b))

\* a list holding two frames of one descriptor and a list holding frames of two descriptors
C2_Witness ==
    /\ AfterReclaim
    /\ \E c \in Colors : \E i, j \in 1..Len(FreeChain[c]) :
         i < j /\ DescriptorOf(FreeChain[c][i]) = DescriptorOf(FreeChain[c][j])
    /\ \E c \in Colors : \E i, j \in 1..Len(FreeChain[c]) :
         i < j /\ DescriptorOf(FreeChain[c][i]) # DescriptorOf(FreeChain[c][j])

\* MiInitializePfnDatabase has returned
AtEnd == pc = "Done"

\* the entry of a page that sits on a free or zeroed list
IsFreeEntry(e) ==
    /\ e.PageLocation \in {"FreePageList", "ZeroedPageList"}
    /\ e.ShareCount = 0
    /\ e.ReferenceCount = 0

\* C3: at the end of MiInitializePfnDatabase every frame that was put on a free list has
\* page location Free or Zeroed, share count 0 and reference count 0
C3_FreeFramesUnreferenced == AtEnd => \A f \in InsertedFrames : IsFreeEntry(MmPfnDatabase[f])

(* --------------------- what the page-table walk counts ------------------ *)
\* frame of the page table (or, for SelfPde, the page directory) that PDE k maps
TableFrame(k) == PageTable[SelfPde][k].PageFrameNumber
ValidPdes == {k \in Pdes : PageTable[SelfPde][k].Valid = 1}
PageTablePages == {TableFrame(k) : k \in ValidPdes}

\* number of valid entries held by the page of PDE k
ValidEntriesIn(k) == Cardinality({l \in Slots : PageTable[k][l].Valid = 1})

\* the entries MiBuildPfnDatabaseFromPages hands to MiSetupPfnForPageTable: every valid
\* PDE once in the PDE loop, and every valid entry of the page of a valid PDE once in
\* the PTE loop; the page of SelfPde is the page directory, so PDEs come up twice
WalkVisits ==
    {<<"PDE", SelfPde, k>> : k \in ValidPdes}
      \cup {<<"PTE", e[1], e[2]>> :
               e \in {x \in ValidPdes \X Slots : PageTable[x[1]][x[2]].Valid = 1}}
VisitTarget(v) == PageTable[v[2]][v[3]].PageFrameNumber

\* visits of an entry that maps frame f
VisitsMapping(f) == Cardinality({v \in WalkVisits : VisitTarget(v) = f})

\* valid PTEs of page tables other than the page directory that map frame f
LeafPtesMapping(f) ==
    Cardinality({v \in WalkVisits : v[1] = "PTE" /\ v[2] # SelfPde /\ VisitTarget(v) = f})

\* the walk is about to run / has just run
BeforeWalk == pc = "MiBuildPfnDatabaseFromPages"
AfterWalk == pc = "MiBuildPfnDatabaseZeroPage"

\* C4 as stated: after the walk, for every page-table page t, the share count of t equals
\* the number of valid entries contained in t
C4_ShareCountIsValidEntries ==
    AfterWalk => \A k \in ValidPdes : MmPfnDatabase[TableFrame(k)].ShareCount = ValidEntriesIn(k)

\* C4 amended: the walk adds to the share count of every page-table page t the number of
\* valid entries contained in t (twice that number for the page directory, whose entries
\* are visited as PDEs and again, through the self map, as PTEs) plus, when the PFN entry
\* of t passes the walk's validity check, the number of visits of a valid entry that maps t
C4_WalkAddsEntriesAndMappings ==
    [][BeforeWalk =>
         \A k \in ValidPdes :
           MmPfnDatabase'[TableFrame(k)].ShareCount =
             MmPfnDatabase[TableFrame(k)].ShareCount
               + (IF k = SelfPde THEN 2 * ValidEntriesIn(k) ELSE ValidEntriesIn(k))
               + (IF PfnEntryUsable(PageTable, MmHighestPhysicalPage, TableFrame(k))
                  THEN VisitsMapping(TableFrame(k)) ELSE 0)]_vars

\* the walk has run over a page table that holds several valid entries
C4_Witness == AfterWalk /\ ValidEntriesIn(PfnTable) >= 3

\* frames whose PFN entry lies on a mapped page of the PFN array
HasPfnEntry(f) == f <= MmHighestPhysicalPage /\ PfnAddressValid(PageTable, f)

C6_HaltsExactlyWhenExhausted ==
    [][pc = "MiEarlyAllocPages" =>
         IF RequestedPageCount' > MiEarlyAllocCount
         THEN /\ pc' = "BugCheck"
              /\ BugCheck' = <<"INSTALL_MORE_MEMORY", MmNumberOfPhysicalPages,
                               MiEarlyAllocCount, MxOldFreeDescriptor.PageCount,
                               RequestedPageCount'>>
              /\ MiEarlyAllocBase' = MiEarlyAllocBase
              /\ MiEarlyAllocCount' = MiEarlyAllocCount
         ELSE /\ pc' = "MiEarlyAllocPages"
              /\ BugCheck' = <<>>
              /\ MiEarlyAllocCount' = MiEarlyAllocCount - RequestedPageCount']_vars

\* an original run of 3 pages, three single-page requests served, the fourth halted
\* with (total, 0, 3, 1)
C6_Witness ==
    /\ pc = "BugCheck"
    /\ MxOldFreeDescriptor.PageCount = 3
    /\ EarlyAllocLog = [i \in 1..3 |-> <<MxOldFreeDescriptor.BasePage + i - 1, 1>>]
    /\ BugCheck = <<"INSTALL_MORE_MEMORY", MmNumberOfPhysicalPages, 0, 3, 1>>

\* the pages of the i-th successful allocation
AllocatedRange(i) == EarlyAllocLog[i][1] .. (EarlyAllocLog[i][1] + EarlyAllocLog[i][2] - 1)

\* C7: after any sequence of successful MiEarlyAllocPages calls, base + count is the
\* original base + page count of the bootstrap descriptor, every returned range lies
\* inside the original range, the ranges are pairwise disjoint, and each range starts
\* where the previous one ended
C7_ContiguousDisjointRanges ==
    /\ MiEarlyAllocBase + MiEarlyAllocCount
         = MxOldFreeDescriptor.BasePage + MxOldFreeDescriptor.PageCount
    /\ \A i \in 1..Len(EarlyAllocLog) : AllocatedRange(i) \subseteq BootstrapFrames
    /\ \A i, j \in 1..Len(EarlyAllocLog) :
         i # j => AllocatedRange(i) \cap AllocatedRange(j) = {}
    /\ \A i \in 1..Len(EarlyAllocLog) :
         EarlyAllocLog[i][1] = IF i = 1 THEN MxOldFreeDescriptor.BasePage
                               ELSE EarlyAllocLog[i - 1][1] + EarlyAllocLog[i - 1][2]

\* three successful allocations of different sizes, the allocator not yet exhausted
C7_Witness ==
    /\ Len(EarlyAllocLog) = 3
    /\ EarlyAllocLog[1][2] = 2 /\ EarlyAllocLog[2][2] = 0 /\ EarlyAllocLog[3][2] = 1
    /\ MiEarlyAllocCount = 1
    /\ pc = "MiEarlyAllocPages"

(* ======================= damaged memory (LoaderBad) ==================== *)
\* C8: when the list holds a Bad descriptor, MiMapPfnDatabase stops on reaching it: the
\* loop never moves past that descriptor and no frame of it is marked in-use
C8_BadDescriptorStopsPopulation ==
    \A i \in 1..Len(MemoryDescriptorList) :
      MemoryDescriptorList[i].MemoryType = "LoaderBad" =>
        /\ ListEntry <= i
        /\ \A f \in FramesOf(MemoryDescriptorList[i]) :
             MmPfnDatabase[f].PageLocation # "ActiveAndValid"

(* ========================= MiBuildPagedPool: sizing ==================== *)
\* Addresses and byte counts are in units of 1 KiB.
PAGE_SIZE == 4
OneMB == 1024
\* ULONG_PTR and SIZE_T arithmetic is modulo 2^32 bytes
UlongModulus == 4194304
U32(x) == x % UlongModulus

\* 0xE1000000
MI_PAGED_POOL_START == 3686400
MmPagedPoolStart == MI_PAGED_POOL_START
\* "make sure paged pool is at least 32MB"
MI_MIN_INIT_PAGED_POOLSIZE == 32 * OneMB
\* PTEs per page table, the literal 1024 of the sizing code
PtesPerPageTable == 1024
\* bytes mapped by one page table
PageTableBytes == PAGE_SIZE * PtesPerPageTable

BYTES_TO_PAGES(Size) == (Size \div PAGE_SIZE) + (IF Size % PAGE_SIZE # 0 THEN 1 ELSE 0)

\* the clamp left out
NoClamp(Size, Gap) == Size

\* "make sure that the VA for paged pool doesn't overflow into nonpaged pool VA"
ClampToGap(Size, Gap) == IF Size > Gap THEN Gap ELSE Size

\* MmSizeOfPagedPoolInBytes as MiBuildPagedPool computes it
PagedPoolBytes(MaxNonPaged, NonPagedSystemStart) ==
    LET Clamped == ClampToGap(U32(2 * MaxNonPaged), U32(NonPagedSystemStart - MmPagedPoolStart))
        Raised == IF Clamped < MI_MIN_INIT_PAGED_POOLSIZE
                  THEN MI_MIN_INIT_PAGED_POOLSIZE ELSE Clamped
        Tables == (BYTES_TO_PAGES(Raised) + (PtesPerPageTable - 1)) \div PtesPerPageTable
    IN U32(Tables * PAGE_SIZE * PtesPerPageTable)

\* the page tables the paged pool takes: Size after "check how many PTEs will be
\* required for these many pages"
PagedPoolTables(MaxNonPaged, NonPagedSystemStart) ==
    LET Clamped == ClampToGap(U32(2 * MaxNonPaged), U32(NonPagedSystemStart - MmPagedPoolStart))
        Raised == IF Clamped < MI_MIN_INIT_PAGED_POOLSIZE
                  THEN MI_MIN_INIT_PAGED_POOLSIZE ELSE Clamped
    IN (BYTES_TO_PAGES(Raised) + (PtesPerPageTable - 1)) \div PtesPerPageTable

\* the condition of the ASSERT that ends the sizing
PagedPoolAssertion(Bytes, NonPagedSystemStart) ==
    U32(Bytes + MmPagedPoolStart) <= NonPagedSystemStart

\* inputs: maximum nonpaged pool sizes up to MaxPoolMB MiB or 2 GiB above that, whole
\* MiB or 1 KiB more; MmNonPagedSystemStart up to MaxGapMB MiB above MmPagedPoolStart,
\* whole MiB or one page more
MaxPoolMB == 20
MaxGapMB == 44
HalfAddressSpaceMB == UlongModulus \div (2 * OneMB)
NonPagedPoolSizes ==
    {(m + h) * OneMB + k : m \in 0..MaxPoolMB, h \in {0, HalfAddressSpaceMB}, k \in {0, 1}}
NonPagedSystemStarts ==
    {MmPagedPoolStart + d * OneMB + k : d \in 0..MaxGapMB, k \in {0, PAGE_SIZE}}
      \ {MmPagedPoolStart}

(* --------------- MiBuildPagedPool: PDEs, bitmaps, thresholds ----------- *)
\* RtlZeroMemory(PointerPde, (1 + MiAddressToPde(MmPagedPoolEnd) - PointerPde) * sizeof(MMPDE))
\* and MI_WRITE_VALID_PDE(PointerPde, TempPde) for the page MiRemoveZeroPage gave
SeedPagedPoolPdes(PdeArray, TableCount, PageFrameIndex) ==
    [j \in DOMAIN PdeArray |->
       IF j = 0 THEN ValidKernelPte(PageFrameIndex)
       ELSE IF j < TableCount THEN InvalidPte
       ELSE PdeArray[j]]

\* sizeof(RTL_BITMAP) and sizeof(ULONG), in bytes
SizeOfRtlBitmap == 8
SizeOfUlong == 4

\* Size after "check how big the bitmap will have to be": the bytes of one buffer
BitMapBufferBytes(Pages) == SizeOfRtlBitmap + ((Pages + 31) \div 32) * SizeOfUlong

\* A bitmap is its number of bits and the runs <<first, last>> of its set bits.
RtlInitializeBitMap(SizeOfBitMap) == [SizeOfBitMap |-> SizeOfBitMap, Set |-> {}]

RtlSetAllBits(BitMap) ==
    [BitMap EXCEPT !.Set = IF BitMap.SizeOfBitMap = 0 THEN {}
                           ELSE {<<0, BitMap.SizeOfBitMap - 1>>}]

RtlClearAllBits(BitMap) == [BitMap EXCEPT !.Set = {}]

\* RtlClearBits: what is left of every run below and above the cleared bits
RtlClearBits(BitMap, StartingIndex, NumberToClear) ==
    LET last == StartingIndex + NumberToClear - 1
        below == {<<r[1], Min(r[2], StartingIndex - 1)>> : r \in BitMap.Set}
        above == {<<Max(r[1], last + 1), r[2]>> : r \in BitMap.Set}
    IN [BitMap EXCEPT !.Set = {r \in below \cup above : r[1] <= r[2]}]

RtlCheckBit(BitMap, i) == \E r \in BitMap.Set : r[1] <= i /\ i <= r[2]

\* an allocation map left with every bit set
AllocationMapAllSet(BitMapSize) == RtlSetAllBits(RtlInitializeBitMap(BitMapSize))

\* the allocation map: "only the first page's worth of PTEs is marked as allocated"
PagedPoolAllocationMapFor(BitMapSize) ==
    RtlClearBits(RtlSetAllBits(RtlInitializeBitMap(BitMapSize)), 0, PtesPerPageTable)

\* the end map: "no bits set as the end"
EndOfPagedPoolBitmapFor(BitMapSize) == RtlClearAllBits(RtlInitializeBitMap(BitMapSize))

\* "Default low threshold of 30MB or one fifth of paged pool"; Size is the local Size
LowPagedPoolThreshold(Size) == Min((30 * OneMB) \div PAGE_SIZE, Size \div 5)

\* "Default high threshold of 60MB or 25%"
HighPagedPoolThreshold(Size) == Min((60 * OneMB) \div PAGE_SIZE, (Size * 2) \div 5)

\* frames MiRemoveZeroPage(0) can hand out, and the frame of a stale PDE
MaxZeroFrame == 2
ZeroPageFrames == 1..MaxZeroFrame
StalePdes == {InvalidPte, ValidKernelPte(MaxZeroFrame + 1)}

InitPool ==
    /\ ScannedGlobals(PlainList)
    /\ PfnDatabaseUnbuilt(InvalidPte)
    /\ RequestedPageCount = 0
    /\ ThresholdsUnset
    /\ MmMaximumNonPagedPoolInBytes \in NonPagedPoolSizes
    /\ MmNonPagedSystemStart \in NonPagedSystemStarts
    /\ MmSizeOfPagedPoolInBytes = MI_MIN_INIT_PAGED_POOLSIZE
    /\ MmSizeOfPagedPoolInPages = MI_MIN_INIT_PAGED_POOLSIZE \div PAGE_SIZE
    /\ MmAvailablePages = 0
    /\ EventsCreated
    /\ LimitsUnbuilt
    /\ ColorsUncomputed
    /\ ResidentUntuned
    /\ NoEventCreation
    /\ \E Pde \in StalePdes : PagedPoolUnbuilt(Pde)
    /\ pc = "MiBuildPagedPool"

\* MiBuildPagedPool.  The ASSERT that ends the sizing stops only a build that keeps
\* its ASSERTs; a bitmap that ExAllocatePoolWithTag does not give stops every build,
\* at the ASSERT or at the write through the null pointer
MiBuildPagedPool ==
    /\ pc = "MiBuildPagedPool"
    /\ LET Bytes == PagedPoolBytes(MmMaximumNonPagedPoolInBytes, MmNonPagedSystemStart)
           Tables == PagedPoolTables(MmMaximumNonPagedPoolInBytes, MmNonPagedSystemStart)
           BitMapSize == Tables * PtesPerPageTable
           Size == BitMapBufferBytes(BitMapSize)
           Seeded == [MmPagedPoolInfo EXCEPT
                        !.FirstPteForPagedPool = 0,
                        !.LastPteForPagedPool = Bytes \div PAGE_SIZE - 1,
                        !.NextPdeForPagedPoolExpansion = 0 + 1]
           Mapped == [Seeded EXCEPT
                        !.PagedPoolAllocationMap = PagedPoolAllocationMapFor(BitMapSize)]
       IN /\ MmSizeOfPagedPoolInBytes' = Bytes
          /\ MmSizeOfPagedPoolInPages' = Bytes \div PAGE_SIZE
          /\ \/ /\ ~PagedPoolAssertion(Bytes, MmNonPagedSystemStart)
                /\ pc' = "AssertFailed"
                /\ UNCHANGED pagedPoolVars
             \/ \E PageFrameIndex \in ZeroPageFrames :
                  /\ PagedPoolPdes' = SeedPagedPoolPdes(PagedPoolPdes, Tables, PageFrameIndex)
                  /\ \/ /\ MmPagedPoolInfo' = Seeded
                        /\ pc' = "NoPagedPoolAllocationMap"
                        /\ UNCHANGED <<MiLowPagedPoolThreshold, MiHighPagedPoolThreshold>>
                     \/ /\ MmPagedPoolInfo' = Mapped
                        /\ pc' = "NoEndOfPagedPoolBitmap"
                        /\ UNCHANGED <<MiLowPagedPoolThreshold, MiHighPagedPoolThreshold>>
                     \/ /\ MmPagedPoolInfo' =
                             [Mapped EXCEPT
                                !.EndOfPagedPoolBitmap = EndOfPagedPoolBitmapFor(BitMapSize)]
                        /\ MiLowPagedPoolThreshold' = LowPagedPoolThreshold(Size)
                        /\ MiHighPagedPoolThreshold' = HighPagedPoolThreshold(Size)
                        /\ pc' = "PagedPoolSized"
    /\ UNCHANGED <<eventVars, limitsVars, colorVars, residentVars, createVars, MemoryDescriptorList,
                   scanVars, allocVars, BugCheck, pfnVars, RequestedPageCount, thresholdVars,
                   MmMaximumNonPagedPoolInBytes, MmNonPagedSystemStart>>

NextPool == MiBuildPagedPool

SpecPool == InitPool /\ [][NextPool]_vars

\* the sizing has run
AfterSizing ==
    pc \in {"PagedPoolSized", "AssertFailed", "NoPagedPoolAllocationMap",
           "NoEndOfPagedPoolBitmap"}
\* room between MmPagedPoolStart and MmNonPagedSystemStart
PoolGap == MmNonPagedSystemStart - MmPagedPoolStart

PagedPoolBuilt == pc = "PagedPoolSized"

\* C23: after MiBuildPagedPool the paged-pool low threshold is the smaller of 30 MiB
\* in pages and a fifth of MmSizeOfPagedPoolInPages, the high threshold the smaller of
\* 60 MiB in pages and two fifths of MmSizeOfPagedPoolInPages, and low < high
C23_ThresholdsFromPagedPoolPages ==
    PagedPoolBuilt =>
      /\ MiLowPagedPoolThreshold =
           Min((30 * OneMB) \div PAGE_SIZE, MmSizeOfPagedPoolInPages \div 5)
      /\ MiHighPagedPoolThreshold =
           Min((60 * OneMB) \div PAGE_SIZE, (2 * MmSizeOfPagedPoolInPages) \div 5)
      /\ MiLowPagedPoolThreshold < MiHighPagedPoolThreshold

\* the bits at which a statement about a run of bits of BitMap can change its truth:
\* bit 0, bit First, and the first bit of and after every run of set bits
BitMapBreaks(BitMap, First) ==
    ({0, First} \cup {r[1] : r \in BitMap.Set} \cup {r[2] + 1 : r \in BitMap.Set})
      \cap (0..(BitMap.SizeOfBitMap - 1))

\* C24: after MiBuildPagedPool both bitmaps have MmSizeOfPagedPoolInPages bits, the
\* allocation map has bits [0, 1024) clear and every other bit set, the end map has
\* every bit clear, NextPdeForPagedPoolExpansion is the PDE after the first paged-pool
\* PDE, and that first PDE is the only paged-pool PDE that is valid.  Every bit agrees
\* with the first bit of its stretch between two breaks, so the breaks stand for all.
C24_BitmapsAndPdesSeeded ==
    PagedPoolBuilt =>
      LET AllocationMap == MmPagedPoolInfo.PagedPoolAllocationMap
          EndMap == MmPagedPoolInfo.EndOfPagedPoolBitmap
          Tables == MmSizeOfPagedPoolInPages \div PtesPerPageTable
      IN /\ AllocationMap.SizeOfBitMap = MmSizeOfPagedPoolInPages
         /\ EndMap.SizeOfBitMap = MmSizeOfPagedPoolInPages
         /\ \A i \in BitMapBreaks(AllocationMap, PtesPerPageTable) :
              RtlCheckBit(AllocationMap, i) <=> i >= PtesPerPageTable
         /\ \A i \in BitMapBreaks(EndMap, PtesPerPageTable) : ~RtlCheckBit(EndMap, i)
         /\ MmPagedPoolInfo.NextPdeForPagedPoolExpansion = 1
         /\ \A j \in PoolPdeIndexes :
              j < Tables => (PagedPoolPdes[j].Valid = 1 <=> j = 0)

\* a paged pool of more than the minimum built over PDEs that held stale valid values
C24_Witness ==
    /\ PagedPoolBuilt
    /\ MmSizeOfPagedPoolInPages > MI_MIN_INIT_PAGED_POOLSIZE \div PAGE_SIZE
    /\ PagedPoolPdes[MaxPoolPdes - 1].Valid = 1
    /\ PagedPoolPdes[1].Valid = 0
    /\ RtlCheckBit(MmPagedPoolInfo.PagedPoolAllocationMap, MmSizeOfPagedPoolInPages - 1)

(* ================== MiInitializeMemoryEvents: thresholds =============== *)
\* pages per MiB: _1MB / PAGE_SIZE
PagesPerMB == OneMB \div PAGE_SIZE

\* PFN_NUMBER is 32 bits wide.  x * (_1MB / PAGE_SIZE) modulo 2^32 depends only on
\* x modulo 2^32 / (_1MB / PAGE_SIZE) = 2^24
PfnWrapMB == (UlongModulus \div PagesPerMB) * OneMB
U32TimesPagesPerMB(x) == (x % PfnWrapMB) * PagesPerMB

\* 3 * x modulo 2^32 for the x whose result is below 2^31: 3 * x itself when that
\* is below 2^31, and 3 * x - 2^32 when x is at least 2^32 / 3
MaxInt31 == (UlongModulus \div 2 - 1) * OneMB + (OneMB - 1)
U32Times3(x) == IF x <= MaxInt31 \div 3 THEN 3 * x ELSE x + 2 * (x - MaxInt31 - 1)

\* "Check for a system with around 64MB RAM or more"
PlentyAfterAdjust(Plenty, PhysicalPages) ==
    IF PhysicalPages >= (63 * OneMB) \div PAGE_SIZE THEN U32(Plenty * 2) ELSE Plenty

\* the low threshold when the registry gives none
GigabytePages == 262144
Over128MBPages == 32768

\* a default that ignores the size of the machine
PlentyAsLowThreshold(Plenty, PhysicalPages) == Plenty

DefaultLowThreshold(Plenty, PhysicalPages) ==
    LET a == IF PhysicalPages > GigabytePages
             THEN (32 * OneMB) \div PAGE_SIZE + ((PhysicalPages - GigabytePages) \div 128)
             ELSE IF PhysicalPages > Over128MBPages
             THEN Plenty + ((PhysicalPages - Over128MBPages) \div 32)
             ELSE Plenty
    IN Min(a, (64 * OneMB) \div PAGE_SIZE)

LowThreshold(Registry, Plenty, PhysicalPages) ==
    IF Registry # 0 THEN U32TimesPagesPerMB(Registry)
    ELSE DefaultLowThreshold(Plenty, PhysicalPages)

\* the high threshold before the final max(); Low is the computed low threshold
HighThresholdBeforeMax(Registry, Low) ==
    IF Registry # 0 THEN U32TimesPagesPerMB(Registry) ELSE U32Times3(Low)

\* "Make sure high threshold is actually higher than the low"
RaiseToLow(High, Low) == Max(High, Low)

\* inputs: page counts in steps of 128 MiB up to 6 GiB, registry values up to
\* MaxRegistryMB MiB, the first values whose page count wraps, and one whose triple wraps
PageCountStep == Over128MBPages
MaxPageCountSteps == 48
PhysicalPageCounts == {i * PageCountStep + k : i \in 0..MaxPageCountSteps, k \in {0, 1}}
MaxRegistryMB == 3
TripleWrapMB == 6 * OneMB * OneMB
RegistryValues ==
    (0..MaxRegistryMB) \cup {PfnWrapMB, PfnWrapMB + 1, TripleWrapMB}

InitEvents ==
    /\ ScannedDescriptors(PlainList)
    /\ MmNumberOfPhysicalPages \in PhysicalPageCounts
    /\ PfnDatabaseUnbuilt(InvalidPte)
    /\ RequestedPageCount = 0
    /\ PoolUnsized
    /\ MmPlentyFreePages = InitialPlentyFreePages
    /\ MmLowMemoryThreshold \in RegistryValues
    /\ MmHighMemoryThreshold \in RegistryValues
    /\ MmAvailablePages \in {0, MmNumberOfPhysicalPages \div 2, MmNumberOfPhysicalPages}
    /\ EventsCreated
    /\ PhasesIdle
    /\ pc = "MiAdjustWorkingSetManagerParameters"

MiAdjustWorkingSetManagerParameters ==
    /\ pc = "MiAdjustWorkingSetManagerParameters"
    /\ MmPlentyFreePages' = PlentyAfterAdjust(MmPlentyFreePages, MmNumberOfPhysicalPages)
    /\ pc' = "MiInitializeMemoryEvents"
    /\ UNCHANGED <<otherVars, MemoryDescriptorList, scanVars, allocVars, BugCheck, pfnVars,
                   RequestedPageCount, poolVars, MmLowMemoryThreshold, MmHighMemoryThreshold>>

\* MiInitializeMemoryEvents: the thresholds, the events, their initial state.  The
\* ASSERT on the default high threshold stops only a build that keeps its ASSERTs; a
\* failing MiCreateMemoryEvent makes the routine return FALSE before the events are set
MiInitializeMemoryEvents ==
    /\ pc = "MiInitializeMemoryEvents"
    /\ LET Low == LowThreshold(MmLowMemoryThreshold, MmPlentyFreePages, MmNumberOfPhysicalPages)
           High == HighThresholdBeforeMax(MmHighMemoryThreshold, Low)
       IN /\ MmLowMemoryThreshold' = Low
          /\ \/ /\ MmHighMemoryThreshold = 0
                /\ ~(High > Low)
                /\ MmHighMemoryThreshold' = High
                /\ pc' = "AssertFailed"
                /\ UNCHANGED <<EventSignaled, EventCalls>>
             \/ /\ MmHighMemoryThreshold' = RaiseToLow(High, Low)
                /\ pc' = "EventsNotCreated"
                /\ UNCHANGED <<EventSignaled, EventCalls>>
             \/ /\ MmHighMemoryThreshold' = RaiseToLow(High, Low)
                /\ LET st == MemoryEventsAfterNotify(MmAvailablePages, Low,
                                                     RaiseToLow(High, Low), EventSignaled)
                   IN EventSignaled' = st.Signaled /\ EventCalls' = st.Calls
                /\ pc' = "ThresholdsComputed"
    /\ UNCHANGED <<MmAvailablePages, phaseVars, MemoryDescriptorList, scanVars, allocVars,
                   BugCheck, pfnVars, RequestedPageCount, poolVars, MmPlentyFreePages>>

NextEvents ==
    \/ MiAdjustWorkingSetManagerParameters
    \/ MiInitializeMemoryEvents

SpecEvents == InitEvents /\ [][NextEvents]_vars

\* C10: after the threshold computation of MiInitializeMemoryEvents the high memory
\* threshold is strictly greater than the low memory threshold
C10_HighAboveLow ==
    pc = "ThresholdsComputed" => MmHighMemoryThreshold > MmLowMemoryThreshold

\* the routine is about to run and the registry has set neither threshold
NoThresholdOverride ==
    /\ pc = "MiInitializeMemoryEvents"
    /\ MmLowMemoryThreshold = 0
    /\ MmHighMemoryThreshold = 0

\* C22: without a registry setting MiInitializeMemoryEvents sets the low threshold to
\* MmPlentyFreePages up to 32K pages of RAM, to MmPlentyFreePages + ((pages - 32K) >> 5)
\* above 32K and up to 256K pages, and to 8192 + ((pages - 256K) >> 7) above 256K pages,
\* never more than 16384 pages, and the high threshold to 3 times the low one
C22_DefaultThresholds ==
    [][NoThresholdOverride =>
         LET pages == MmNumberOfPhysicalPages
             low == IF pages <= 32768 THEN MmPlentyFreePages
                    ELSE IF pages <= 262144
                    THEN MmPlentyFreePages + ((pages - 32768) \div 32)
                    ELSE 8192 + ((pages - 262144) \div 128)
         IN /\ MmLowMemoryThreshold' = IF low > 16384 THEN 16384 ELSE low
            /\ MmHighMemoryThreshold' = 3 * MmLowMemoryThreshold']_vars

\* the thresholds of a machine of 524288 pages: 10240 and 30720 pages
C22_Witness ==
    /\ pc = "ThresholdsComputed"
    /\ MmNumberOfPhysicalPages = 524288
    /\ MmLowMemoryThreshold = 10240
    /\ MmHighMemoryThreshold = 30720

(* ======================== MiNotifyMemoryEvents ======================== *)
\* thresholds and available page counts run up to MaxThreshold and one past it
MaxThreshold == 3

\* MiNotifyMemoryEvents on its own: the thresholds as MiInitializeMemoryEvents leaves
\* them (the high one raised to the low one), the events in any state
InitNotify ==
    /\ ScannedGlobals(PlainList)
    /\ PfnDatabaseUnbuilt(InvalidPte)
    /\ RequestedPageCount = 0
    /\ PoolUnsized
    /\ MmPlentyFreePages = InitialPlentyFreePages
    /\ MmLowMemoryThreshold \in 0..MaxThreshold
    /\ \E h \in 0..MaxThreshold : MmHighMemoryThreshold = RaiseToLow(h, MmLowMemoryThreshold)
    /\ MmAvailablePages \in 0..(MaxThreshold + 1)
    /\ EventSignaled \in [MemoryEvents -> BOOLEAN]
    /\ EventCalls = 0
    /\ PhasesIdle
    /\ pc = "MiNotifyMemoryEvents"

MiNotifyMemoryEvents ==
    /\ pc \in {"MiNotifyMemoryEvents", "Notified"}
    /\ LET st == MemoryEventsAfterNotify(MmAvailablePages, MmLowMemoryThreshold,
                                         MmHighMemoryThreshold, EventSignaled)
       IN EventSignaled' = st.Signaled /\ EventCalls' = st.Calls
    /\ pc' = "Notified"
    /\ UNCHANGED <<MmAvailablePages, phaseVars, MemoryDescriptorList, scanVars, allocVars,
                   BugCheck, pfnVars, nonPfnVars>>

NextNotify == MiNotifyMemoryEvents

SpecNotify == InitNotify /\ [][NextNotify]_vars

\* the events as the available page count asks for them
EventsMatchAvailablePages ==
    LET low == EventSignaled[MiLowMemoryEvent]
        high == EventSignaled[MiHighMemoryEvent]
    IN IF MmAvailablePages < MmLowMemoryThreshold THEN low /\ ~high
       ELSE IF MmAvailablePages < MmHighMemoryThreshold THEN ~low /\ ~high
       ELSE high /\ ~low

\* C11: after MiNotifyMemoryEvents, whatever the events were before, low is signaled
\* alone below the low threshold, neither is signaled from the low threshold up to the
\* high one, high is signaled alone from the high threshold on; the two are never both
\* signaled, and an evaluation that follows another makes no set or clear call
C11_EventsFollowAvailablePages ==
    /\ [](pc = "Notified" =>
            /\ EventsMatchAvailablePages
            /\ ~(EventSignaled[MiLowMemoryEvent] /\ EventSignaled[MiHighMemoryEvent]))
    /\ [][pc = "Notified" => EventCalls' = 0 /\ EventSignaled' = EventSignaled]_vars

\* an evaluation below the low threshold has cleared high and set low
C11_Witness ==
    /\ pc = "Notified"
    /\ EventCalls = 2
    /\ MmAvailablePages < MmLowMemoryThreshold
    /\ EventSignaled[MiLowMemoryEvent]

(* ================ MmInitializeMemoryLimits as a system ================= *)
InitLimits ==
    /\ \E list \in DescriptorLists : ScannedGlobals(list)
    /\ PfnDatabaseUnbuilt(InvalidPte)
    /\ RequestedPageCount = 0
    /\ PoolUnsized
    /\ ThresholdsUnset
    /\ MmAvailablePages = 0
    /\ EventsCreated
    /\ IncludeType \in SUBSET ModelledTypes
    /\ MmPhysicalMemoryBlock = NULL
    /\ MiPfnBitMap = {}
    /\ ColorsUncomputed
    /\ LateIdle
    /\ pc = "MmInitializeMemoryLimits"

\* MmInitializeMemoryLimits(LoaderBlock, IncludeType); it returns NULL when the pool
\* has no room for the worst-case buffer
MmInitializeMemoryLimits ==
    /\ pc = "MmInitializeMemoryLimits"
    /\ \/ MmPhysicalMemoryBlock' = PhysicalMemoryDescriptor(MemoryDescriptorList, IncludeType)
       \/ MmPhysicalMemoryBlock' = NULL
    /\ pc' = "MemoryLimitsReturned"
    /\ UNCHANGED <<IncludeType, MiPfnBitMap, colorVars, lateVars, eventVars, MemoryDescriptorList, scanVars,
                   allocVars, BugCheck, pfnVars, nonPfnVars>>

NextLimits == MmInitializeMemoryLimits

SpecLimits == InitLimits /\ [][NextLimits]_vars

\* MmInitializeMemoryLimits has returned a block
LimitsReturned == pc = "MemoryLimitsReturned" /\ MmPhysicalMemoryBlock # NULL

RunEnd(r) == r.BasePage + r.PageCount

\* the runs are in ascending base order and no two of them touch or overlap
RunsSortedAndMaximal(Run) ==
    /\ \A i \in 1..(Len(Run) - 1) : Run[i].BasePage < Run[i + 1].BasePage
    /\ \A i, j \in 1..Len(Run) :
         i # j => /\ RunEnd(Run[i]) # Run[j].BasePage
                  /\ (RunEnd(Run[i]) <= Run[j].BasePage \/ RunEnd(Run[j]) <= Run[i].BasePage)

\* the included descriptors, in list order
IncludedDescriptors ==
    SelectSeq(MemoryDescriptorList, LAMBDA d : d.MemoryType \in IncludeType)

\* the included descriptors come in ascending base order
IncludedAscending ==
    \A i \in 1..(Len(IncludedDescriptors) - 1) :
       IncludedDescriptors[i].BasePage < IncludedDescriptors[i + 1].BasePage

\* C12 as stated: for every descriptor list and inclusion predicate the runs of the
\* block MmInitializeMemoryLimits returns are sorted by ascending base page and
\* maximal, also when the list is not in ascending base order
C12_RunsSortedAndMaximal ==
    LimitsReturned => RunsSortedAndMaximal(MmPhysicalMemoryBlock.Run)

\* C12 amended: the runs are sorted by ascending base page and maximal whenever the
\* included descriptors appear in the list in ascending base order
C12_RunsSortedAndMaximalForAscendingList ==
    LimitsReturned /\ IncludedAscending => RunsSortedAndMaximal(MmPhysicalMemoryBlock.Run)

\* an ascending list has given several runs, one of them combined from two descriptors
C12_Witness ==
    /\ LimitsReturned
    /\ IncludedAscending
    /\ MmPhysicalMemoryBlock.NumberOfRuns = 2
    /\ Len(IncludedDescriptors) = 3

\* each included descriptor starts at the page where the included one before it ended
IncludedChain ==
    /\ Len(IncludedDescriptors) >= 1
    /\ \A i \in 1..(Len(IncludedDescriptors) - 1) :
         IncludedDescriptors[i + 1].BasePage = RunEnd(IncludedDescriptors[i])

IncludedPages == SumSeq([i \in 1..Len(IncludedDescriptors) |-> IncludedDescriptors[i].PageCount])

\* C13: included descriptors that follow each other in the list and are physically
\* adjacent end up in one run that starts at the first base and holds the sum of the
\* page counts; NumberOfPages is the sum of the page counts of the included
\* descriptors and NumberOfRuns is at most the number of descriptors
C13_AdjacentDescriptorsCoalesce ==
    LimitsReturned =>
      /\ MmPhysicalMemoryBlock.NumberOfPages = IncludedPages
      /\ MmPhysicalMemoryBlock.NumberOfRuns <= Len(MemoryDescriptorList)
      /\ MmPhysicalMemoryBlock.NumberOfRuns = Len(MmPhysicalMemoryBlock.Run)
      /\ IncludedChain =>
           /\ MmPhysicalMemoryBlock.NumberOfRuns = 1
           /\ MmPhysicalMemoryBlock.Run[1] =
                [BasePage |-> IncludedDescriptors[1].BasePage, PageCount |-> IncludedPages]

\* three adjacent descriptors, all included, have been combined
C13_Witness ==
    /\ LimitsReturned
    /\ IncludedChain
    /\ Len(IncludedDescriptors) = 3
    /\ MmPhysicalMemoryBlock.NumberOfRuns = 1

(* ============================ the PFN bitmap ========================== *)
BitMapBuilt == pc = "PfnBitMapBuilt"

\* the descriptors of the list that describe page p
DescriptorsOf(p) ==
    {i \in 1..Len(MemoryDescriptorList) : p \in FramesOf(MemoryDescriptorList[i])}

\* C14: once the PFN bitmap is built, bit p is set exactly when p lies in a descriptor
\* whose type is none of Bad, FirmwarePermanent, SpecialMemory and BBTMemory, and every
\* page whose bit is set lies in a descriptor that is part of the database and has its
\* entry on a page of the PFN array that MiMapPfnDatabase mapped
C14_BitMapMatchesIncludedDescriptors ==
    BitMapBuilt =>
      \A p \in Frames :
        /\ p \in MiPfnBitMap <=>
             \E i \in DescriptorsOf(p) : MemoryDescriptorList[i].MemoryType \notin NotIncludedTypes
        /\ p \in MiPfnBitMap =>
             /\ \E i \in DescriptorsOf(p) :
                  MiIsMemoryTypeInDatabase(MemoryDescriptorList[i].MemoryType)
             /\ p <= MmHighestPhysicalPage
             /\ PfnAddressValid(PageTable, p)

\* the bitmap has been built for a list with a bad descriptor, whose pages have PFN
\* entries and no bit, next to pages that have both
C14_Witness ==
    /\ BitMapBuilt
    /\ \E p \in Frames :
         /\ p \notin MiPfnBitMap
         /\ PfnAddressValid(PageTable, p)
         /\ \E i \in DescriptorsOf(p) : MemoryDescriptorList[i].MemoryType = "LoaderBad"
    /\ \E p \in MiPfnBitMap : p < VarFrames

(* ================= MiScanMemoryDescriptors as a system ================= *)
\* largest BasePage of a descriptor handed to the scan
MaxScanBase == 3

\* the types the scan tells apart: two free ones, a bad one, one in use, one left out
ScanTypes == DescriptorTypes \cup {"LoaderOsloaderStack"}

ScanDescriptors ==
    [MemoryType : ScanTypes, BasePage : 0..MaxScanBase, PageCount : 1..MaxPageCount]

\* every list of at most MaxDescriptors descriptors, in any order, free memory or none
ScanLists == UNION {[1..n -> ScanDescriptors] : n \in 0..MaxDescriptors}

\* MEMORY_ALLOCATION_DESCRIPTOR MxOldFreeDescriptor before the scan: zeroed (.bss)
ZeroDescriptor == [MemoryType |-> "LoaderExceptionBlock", BasePage |-> 0, PageCount |-> 0]

\* what a read through the null MxFreeDescriptor can return
NullPageContents == ScanDescriptors \cup {ZeroDescriptor}

InitScan ==
    /\ MemoryDescriptorList \in ScanLists
    /\ MiNumberDescriptors = ScanStart.MiNumberDescriptors
    /\ MmNumberOfPhysicalPages = ScanStart.MmNumberOfPhysicalPages
    /\ MmLowestPhysicalPage = ScanStart.MmLowestPhysicalPage
    /\ MmHighestPhysicalPage = ScanStart.MmHighestPhysicalPage
    /\ MiNumberOfFreePages = ScanStart.MiNumberOfFreePages
    /\ MxFreeDescriptor = ScanStart.MxFreeDescriptor
    /\ MxOldFreeDescriptor = ZeroDescriptor
    /\ MiEarlyAllocBase = 0
    /\ MiEarlyAllocCount = ScanStart.MiEarlyAllocCount
    /\ PfnDatabaseUnbuilt(InvalidPte)
    /\ RequestedPageCount = 0
    /\ PoolUnsized
    /\ ThresholdsUnset
    /\ OthersIdle
    /\ pc = "MiScanMemoryDescriptors"

\* MiScanMemoryDescriptors(LoaderBlock); without a free descriptor MxFreeDescriptor
\* is still null when it is read after the loop
MiScanMemoryDescriptors ==
    /\ pc = "MiScanMemoryDescriptors"
    /\ LET s == ScanFrom([ScanStart EXCEPT
                            !.MiNumberDescriptors = MiNumberDescriptors,
                            !.MmNumberOfPhysicalPages = MmNumberOfPhysicalPages,
                            !.MmLowestPhysicalPage = MmLowestPhysicalPage,
                            !.MmHighestPhysicalPage = MmHighestPhysicalPage,
                            !.MiNumberOfFreePages = MiNumberOfFreePages,
                            !.MiEarlyAllocCount = MiEarlyAllocCount,
                            !.MxFreeDescriptor = MxFreeDescriptor],
                         MemoryDescriptorList, 1)
       IN /\ MiNumberDescriptors' = s.MiNumberDescriptors
          /\ MmNumberOfPhysicalPages' = s.MmNumberOfPhysicalPages
          /\ MmLowestPhysicalPage' = s.MmLowestPhysicalPage
          /\ MmHighestPhysicalPage' = s.MmHighestPhysicalPage
          /\ MiNumberOfFreePages' = s.MiNumberOfFreePages
          /\ MiEarlyAllocCount' = s.MiEarlyAllocCount
          /\ MxFreeDescriptor' = s.MxFreeDescriptor
          /\ IF s.MxFreeDescriptor # 0
             THEN /\ MxOldFreeDescriptor' = MemoryDescriptorList[s.MxFreeDescriptor]
                  /\ MiEarlyAllocBase' = MemoryDescriptorList[s.MxFreeDescriptor].BasePage
                  /\ pc' = "MiEarlyAllocPages"
             ELSE \/ /\ pc' = "NullDereference"
                     /\ UNCHANGED <<MxOldFreeDescriptor, MiEarlyAllocBase>>
                  \/ /\ MxOldFreeDescriptor' \in NullPageContents
                     /\ MiEarlyAllocBase' = MxOldFreeDescriptor'.BasePage
                     /\ pc' = "ScannedWithoutFreeDescriptor"
    /\ UNCHANGED <<otherVars, MemoryDescriptorList, EarlyAllocLog, BugCheck, pfnVars, nonPfnVars>>

NextScan ==
    \/ MiScanMemoryDescriptors
    \/ \E PageCount \in 0..MaxRequest : EarlyAlloc(PageCount)

SpecScan == InitScan /\ [][NextScan]_vars

\* the loop of MiScanMemoryDescriptors has run to its end
Scanned == pc # "MiScanMemoryDescriptors"

\* the scan is over and MiEarlyAllocPages has not been called since
JustScanned == Scanned /\ EarlyAllocLog = <<>> /\ BugCheck = <<>>

\* positions of the descriptors that are part of the PFN database
InDatabase ==
    {i \in 1..Len(MemoryDescriptorList) :
       MiIsMemoryTypeInDatabase(MemoryDescriptorList[i].MemoryType)}

\* positions of the descriptors classified as free memory
FreeClassified ==
    {i \in 1..Len(MemoryDescriptorList) :
       MemoryDescriptorList[i].MemoryType \in
         {"LoaderFree", "LoaderLoadedProgram", "LoaderFirmwareTemporary", "LoaderOsloaderStack"}}

\* sum of the page counts of the descriptors at the positions I
RECURSIVE PagesAt(_)
PagesAt(I) ==
    IF I = {} THEN 0
    ELSE LET i == CHOOSE j \in I : TRUE
         IN MemoryDescriptorList[i].PageCount + PagesAt(I \ {i})

\* C15: after MiScanMemoryDescriptors on any list, with the counters starting at zero,
\* MmNumberOfPhysicalPages is the sum of the page counts of the descriptors that are in
\* the database and not bad; the left-out types and bad memory add nothing
C15_PhysicalPagesAreCountedDescriptors ==
    Scanned =>
      MmNumberOfPhysicalPages =
        PagesAt({i \in InDatabase : MemoryDescriptorList[i].MemoryType # "LoaderBad"})

\* the scan has returned for a list with bad memory next to memory that counts
C15_Witness ==
    /\ pc = "MiEarlyAllocPages"
    /\ EarlyAllocLog = <<>>
    /\ \E i \in InDatabase : MemoryDescriptorList[i].MemoryType = "LoaderBad"
    /\ MmNumberOfPhysicalPages > 0
    /\ MmNumberOfPhysicalPages < PagesAt(1..Len(MemoryDescriptorList))

\* C16: MiNumberOfFreePages is the sum of the page counts of the descriptors classified
\* as free (Free, LoadedProgram, FirmwareTemporary, OsloaderStack); it is measured before
\* any early allocation and no later call of MiEarlyAllocPages changes it
C16_FreePagesAreFreeDescriptors ==
    /\ [](Scanned => MiNumberOfFreePages = PagesAt(FreeClassified))
    /\ [][Scanned => MiNumberOfFreePages' = MiNumberOfFreePages]_vars

\* pages have been taken from the early allocator of a list with two kinds of free
\* memory, and MiNumberOfFreePages still counts them
C16_Witness ==
    /\ pc = "MiEarlyAllocPages"
    /\ \E i \in 1..Len(EarlyAllocLog) : EarlyAllocLog[i][2] > 0
    /\ \E i, j \in FreeClassified :
         MemoryDescriptorList[i].MemoryType # MemoryDescriptorList[j].MemoryType
    /\ MiNumberOfFreePages > MiEarlyAllocCount

\* is position i the first one among the free descriptors of the largest page count
FirstLargestFree(i) ==
    /\ i \in FreeClassified
    /\ \A j \in FreeClassified :
         /\ MemoryDescriptorList[j].PageCount <= MemoryDescriptorList[i].PageCount
         /\ MemoryDescriptorList[j].PageCount = MemoryDescriptorList[i].PageCount => i <= j

\* C17: the descriptor chosen for early allocations is the free-classified descriptor
\* with the largest page count, the first one met when several are equally large;
\* MxOldFreeDescriptor holds its base and page count, and so do MiEarlyAllocBase and
\* MiEarlyAllocCount when the scan returns
C17_BootstrapIsFirstLargestFree ==
    (Scanned /\ FreeClassified # {}) =>
      /\ FirstLargestFree(MxFreeDescriptor)
      /\ MxOldFreeDescriptor = MemoryDescriptorList[MxFreeDescriptor]
      /\ JustScanned =>
           /\ MiEarlyAllocBase = MemoryDescriptorList[MxFreeDescriptor].BasePage
           /\ MiEarlyAllocCount = MemoryDescriptorList[MxFreeDescriptor].PageCount

\* the scan has returned for a list whose two free descriptors are equally large and
\* lie at different bases: the first one was taken
C17_Witness ==
    /\ JustScanned
    /\ FreeClassified = {1, 2}
    /\ MemoryDescriptorList[1].PageCount = MemoryDescriptorList[2].PageCount
    /\ MemoryDescriptorList[1].BasePage > MemoryDescriptorList[2].BasePage
    /\ MxFreeDescriptor = 1
    /\ MiEarlyAllocBase = MemoryDescriptorList[1].BasePage

\* last page of the descriptor at position i
LastPageAt(i) == MemoryDescriptorList[i].BasePage + MemoryDescriptorList[i].PageCount - 1

\* C18: MmLowestPhysicalPage is the smallest base, and MmHighestPhysicalPage the largest
\* base + count - 1, over all the descriptors that are in the database, bad ones included
C18_LowestAndHighestOverDatabase ==
    (Scanned /\ InDatabase # {}) =>
      /\ \E i \in InDatabase : MmLowestPhysicalPage = MemoryDescriptorList[i].BasePage
      /\ \A i \in InDatabase : MmLowestPhysicalPage <= MemoryDescriptorList[i].BasePage
      /\ \E i \in InDatabase : MmHighestPhysicalPage = LastPageAt(i)
      /\ \A i \in InDatabase : MmHighestPhysicalPage >= LastPageAt(i)

\* the scan has returned for a list whose bad descriptor lies below its free memory,
\* none of it at page 0: the bad base is the lowest page
C18_Witness ==
    /\ JustScanned
    /\ \E i, j \in InDatabase :
         /\ MemoryDescriptorList[i].MemoryType = "LoaderBad"
         /\ MemoryDescriptorList[j].MemoryType = "LoaderFree"
         /\ MemoryDescriptorList[i].BasePage < MemoryDescriptorList[j].BasePage
         /\ MmLowestPhysicalPage = MemoryDescriptorList[i].BasePage
         /\ MmHighestPhysicalPage = LastPageAt(j)
    /\ MmLowestPhysicalPage > 0

(* ===================== MiComputeColorInformation ====================== *)
\* log2 of the page size in bytes
PAGE_SHIFT == 12

\* the fewest and the most colors MiComputeColorInformation accepts, and its default
MI_MIN_SECONDARY_COLORS == 8
MI_SECONDARY_COLORS == 64
MI_MAX_SECONDARY_COLORS == 1024

\* x >> n on ULONG
ShiftRight(x, n) == x \div (2 ^ n)

\* a & b on ULONG
RECURSIVE BitAnd(_, _)
BitAnd(a, b) ==
    IF a = 0 \/ b = 0 THEN 0
    ELSE (a % 2) * (b % 2) + 2 * BitAnd(a \div 2, b \div 2)

\* the cache bytes by set/way, or the setting provided already
ColorBytes(Setting, CacheSize, Associativity) ==
    IF Setting # 0 THEN Setting
    ELSE IF Associativity # 0 THEN CacheSize \div Associativity
    ELSE CacheSize

\* a lower limit that replaces too few colors by the fewest allowed
RaiseToMinimum(Count) ==
    IF Count < MI_MIN_SECONDARY_COLORS THEN MI_MIN_SECONDARY_COLORS ELSE Count

\* "Make sure there aren't too little colors": set the default
DefaultIfTooFew(Count) ==
    IF Count < MI_MIN_SECONDARY_COLORS THEN MI_SECONDARY_COLORS ELSE Count

\* a check that lets every count pass
KeepColors(Count) == Count

\* "Finally make sure the colors are a power of two": set the default
DefaultIfNotPowerOfTwo(Count) ==
    IF BitAnd(Count, Count - 1) # 0 THEN MI_SECONDARY_COLORS ELSE Count

\* "make sure there aren't too many colors": set the maximum
LimitToMaximum(Count) ==
    IF Count > MI_MAX_SECONDARY_COLORS THEN MI_MAX_SECONDARY_COLORS ELSE Count

\* MmSecondaryColors as left by the checks that follow the conversion to pages
SecondaryColorsOf(Raw) ==
    IF Raw = 0 THEN MI_SECONDARY_COLORS
    ELSE DefaultIfNotPowerOfTwo(DefaultIfTooFew(LimitToMaximum(Raw)))

(* ----------------- MiComputeColorInformation as a system --------------- *)
\* cache sizes and settings are multiples of CacheSizeStep bytes
CacheSizeStep == 2048
MaxCacheSteps == 2100
MaxAssociativity == 4

CacheSizes == {k * CacheSizeStep : k \in 0..MaxCacheSteps}

Pcrs == [SecondLevelCacheSize : CacheSizes,
         SecondLevelCacheAssociativity : 0..MaxAssociativity]

\* with a setting provided the PCR is not read: two caches stand for all
SamplePcrs == {NoCache,
               [SecondLevelCacheSize |-> MaxCacheSteps * CacheSizeStep,
                SecondLevelCacheAssociativity |-> MaxAssociativity]}

InitColors ==
    /\ \E list \in {PlainList} : ScannedGlobals(list)
    /\ PfnDatabaseUnbuilt(InvalidPte)
    /\ RequestedPageCount = 0
    /\ PoolUnsized
    /\ ThresholdsUnset
    /\ MmAvailablePages = 0
    /\ EventsCreated
    /\ LimitsUnbuilt
    /\ LateIdle
    /\ \E Setting \in CacheSizes :
         /\ ColorInformation = [NoColorInformation EXCEPT !.MmSecondaryColors = Setting]
         /\ Pcr \in IF Setting = 0 THEN Pcrs ELSE SamplePcrs
    /\ pc = "MiComputeColorInformation"

\* MiComputeColorInformation()
MiComputeColorInformation ==
    /\ pc = "MiComputeColorInformation"
    /\ LET Raw == ShiftRight(ColorBytes(ColorInformation.MmSecondaryColors,
                                        Pcr.SecondLevelCacheSize,
                                        Pcr.SecondLevelCacheAssociativity), PAGE_SHIFT)
           Count == SecondaryColorsOf(Raw)
       IN ColorInformation' = [MmSecondaryColors |-> Count,
                               MmSecondaryColorMask |-> Count - 1,
                               SecondaryColorMask |-> Count - 1,
                               RawColors |-> Raw]
    /\ pc' = "ColorsComputed"
    /\ UNCHANGED <<Pcr, limitsVars, lateVars, eventVars, MemoryDescriptorList, scanVars, allocVars,
                   BugCheck, pfnVars, nonPfnVars>>

NextColors == MiComputeColorInformation

SpecColors == InitColors /\ [][NextColors]_vars

ColorsComputed == pc = "ColorsComputed"

IsPowerOfTwo(x) == \E k \in 0..30 : x = 2 ^ k

\* C19: after MiComputeColorInformation, whatever the L2 cache size, the associativity
\* (zero included) and the setting found in MmSecondaryColors, MmSecondaryColors is a
\* power of two from MI_MIN_SECONDARY_COLORS to MI_MAX_SECONDARY_COLORS and
\* MmSecondaryColorMask is MmSecondaryColors - 1
C19_ColorsArePowerOfTwoInRange ==
    ColorsComputed =>
      /\ IsPowerOfTwo(ColorInformation.MmSecondaryColors)
      /\ ColorInformation.MmSecondaryColors >= MI_MIN_SECONDARY_COLORS
      /\ ColorInformation.MmSecondaryColors <= MI_MAX_SECONDARY_COLORS
      /\ ColorInformation.MmSecondaryColorMask = ColorInformation.MmSecondaryColors - 1

\* a 512 KiB cache of associativity 4 has given 32 colors and the mask 31
C19_Witness ==
    /\ ColorsComputed
    /\ Pcr = [SecondLevelCacheSize |-> 524288, SecondLevelCacheAssociativity |-> 4]
    /\ ColorInformation.RawColors = 32
    /\ ColorInformation.MmSecondaryColors = 32
    /\ ColorInformation.MmSecondaryColorMask = 31

\* the raw count held between MI_MIN_SECONDARY_COLORS and MI_MAX_SECONDARY_COLORS
ClampedCount(Raw) == Max(MI_MIN_SECONDARY_COLORS, Min(Raw, MI_MAX_SECONDARY_COLORS))

\* C20 as stated: a nonzero raw color count is clamped to [MI_MIN_SECONDARY_COLORS,
\* MI_MAX_SECONDARY_COLORS] before the power-of-two check, so that a count above the
\* maximum gives the maximum and a nonzero count below the minimum gives the minimum;
\* the default is used only for a raw count of zero or a clamped count that is no
\* power of two
C20_ClampedToMinimumAndMaximum ==
    ColorsComputed =>
      LET Raw == ColorInformation.RawColors IN
      ColorInformation.MmSecondaryColors =
        IF Raw = 0 THEN MI_SECONDARY_COLORS
        ELSE IF IsPowerOfTwo(ClampedCount(Raw)) THEN ClampedCount(Raw)
        ELSE MI_SECONDARY_COLORS

\* C20, amended: a nonzero raw color count is limited to MI_MAX_SECONDARY_COLORS before
\* the power-of-two check, so that a count above the maximum gives the maximum, while a
\* nonzero count below MI_MIN_SECONDARY_COLORS gives the default MI_SECONDARY_COLORS;
\* the default is used only for a raw count of zero, a count below the minimum or a
\* limited count that is no power of two
C20_LimitedToMaximumDefaultBelowMinimum ==
    ColorsComputed =>
      LET Raw == ColorInformation.RawColors IN
      ColorInformation.MmSecondaryColors =
        IF Raw = 0 \/ Raw < MI_MIN_SECONDARY_COLORS THEN MI_SECONDARY_COLORS
        ELSE IF IsPowerOfTwo(Min(Raw, MI_MAX_SECONDARY_COLORS))
             THEN Min(Raw, MI_MAX_SECONDARY_COLORS)
        ELSE MI_SECONDARY_COLORS

\* a cache of fewer pages per way than MI_MIN_SECONDARY_COLORS has been given the
\* default number of colors
C20_Witness ==
    /\ ColorsComputed
    /\ ColorInformation.RawColors > 0
    /\ ColorInformation.RawColors < MI_MIN_SECONDARY_COLORS
    /\ ColorInformation.MmSecondaryColors = MI_SECONDARY_COLORS
    /\ Pcr.SecondLevelCacheAssociativity > 1

(* ============== MmArmInitSystem: resident available pages ============== *)
\* n megabytes in pages
MBPages(n) == (n * OneMB) \div PAGE_SIZE

\* MmSystemCacheWsMinimum after the checks on the number of physical pages
SystemCacheWsMinimumFor(WsMinimum, PhysicalPages) ==
    LET boosted == IF PhysicalPages <= MBPages(13) THEN WsMinimum
                   ELSE IF PhysicalPages <= MBPages(19) THEN WsMinimum + 100
                   ELSE WsMinimum + 400
        cut == IF PhysicalPages < MBPages(24) THEN 32 ELSE boosted
    IN IF PhysicalPages > MBPages(33) THEN cut + 500 ELSE cut

\* MmSystemSize after the same checks
SystemSizeFor(PhysicalPages, ProductType) ==
    IF /\ PhysicalPages >= MBPages(32)
       /\ ProductType = "WinNt" \/ PhysicalPages >= MBPages(64)
    THEN "MmLargeSystem"
    ELSE IF PhysicalPages <= MBPages(19) THEN "MmSmallSystem"
    ELSE "MmMediumSystem"

\* a test that lets a count of exactly zero pass
ResidentBelowZero(Pages, Signed) == Signed /\ Pages < 0

\* MmResidentAvailablePages <= 0; Pages is the 32-bit value read as a signed number,
\* and an unsigned count is never below zero
ResidentExhausted(Pages, Signed) == IF Signed THEN Pages <= 0 ELSE Pages = 0

\* the globals after the tuning of MmArmInitSystem that follows the PFN bitmap
TunedSystem(t, Available, PhysicalPages) ==
    LET WsMinimum == SystemCacheWsMinimumFor(t.MmSystemCacheWsMinimum, PhysicalPages)
        Resident == (Available - 32) - t.MiExpansionPoolPagesInitialCharge - WsMinimum
    IN [t EXCEPT !.MmSystemCacheWsMinimum = WsMinimum,
                 !.MmSystemSize = SystemSizeFor(PhysicalPages, t.MmProductType),
                 !.NtProductType = IF t.MmProductType = "WinNt" THEN "NtProductWinNt"
                                   ELSE IF t.MmProductType = "LanManNt" THEN "NtProductLanManNt"
                                   ELSE "NtProductServer",
                 !.MmProductType = IF t.MmProductType = "WinNt" THEN 0 ELSE 1,
                 !.MmMinimumFreePages = IF t.MmProductType = "WinNt" THEN @ ELSE 81,
                 !.MmResidentAvailablePages = Resident,
                 !.MmResidentAvailableAtInit = Resident]

(* -------------------- the tuning as a system --------------------------- *)
\* MmAvailablePages is a multiple of AvailableStep pages
AvailableStep == 4
MaxAvailableSteps == 400
\* largest initial charge of the nonpaged pool expansion, in steps
MaxChargeSteps == 2

ProductTypes == {"WinNt", "LanManNt", "ServerNt"}

\* one page below, at and above each size MmArmInitSystem tells apart
TunedPhysicalPages ==
    {MBPages(m) + d : m \in {13, 19, 24, 32, 33, 64}, d \in {-1, 0, 1}}

InitResident ==
    /\ ScannedDescriptors(PlainList)
    /\ MmNumberOfPhysicalPages \in TunedPhysicalPages
    /\ PfnDatabaseUnbuilt(InvalidPte)
    /\ RequestedPageCount = 0
    /\ PoolUnsized
    /\ ThresholdsUnset
    /\ MmAvailablePages \in {k * AvailableStep : k \in 0..MaxAvailableSteps}
    /\ EventsCreated
    /\ LimitsUnbuilt
    /\ ColorsUncomputed
    /\ PagedPoolUnbuilt(InvalidPte)
    /\ NoEventCreation
    /\ \E Charge \in 0..MaxChargeSteps, Product \in ProductTypes, Signed \in BOOLEAN :
         SystemTuning = [UntunedSystem EXCEPT
                           !.MiExpansionPoolPagesInitialCharge = Charge * AvailableStep,
                           !.MmProductType = Product,
                           !.Signed = Signed]
    /\ ArmInitResult = NotReturned
    /\ pc = "MmArmInitSystemResidentPages"

\* MmArmInitSystem from "Set the initial resident page count" to the test of
\* MmResidentAvailablePages
MmArmInitSystemResidentPages ==
    /\ pc = "MmArmInitSystemResidentPages"
    /\ SystemTuning' = TunedSystem(SystemTuning, MmAvailablePages, MmNumberOfPhysicalPages)
    /\ MmPlentyFreePages' = PlentyAfterAdjust(MmPlentyFreePages, MmNumberOfPhysicalPages)
    /\ IF ResidentExhausted(SystemTuning'.MmResidentAvailablePages, SystemTuning.Signed)
       THEN /\ ArmInitResult' = [Returned |-> TRUE, Value |-> FALSE]
            /\ pc' = "MmArmInitSystemReturned"
       ELSE /\ ArmInitResult' = ArmInitResult
            /\ pc' = "MmTotalCommitLimit"
    /\ UNCHANGED <<limitsVars, colorVars, pagedPoolVars, createVars, eventVars, MemoryDescriptorList,
                   scanVars, allocVars, BugCheck, pfnVars, RequestedPageCount, poolVars,
                   MmLowMemoryThreshold, MmHighMemoryThreshold>>

NextResident == MmArmInitSystemResidentPages

SpecResident == InitResident /\ [][NextResident]_vars

\* the test of MmResidentAvailablePages has been made and the count was not above zero
ResidentLeftNonPositive ==
    /\ pc \in {"MmArmInitSystemReturned", "MmTotalCommitLimit"}
    /\ IF SystemTuning.Signed THEN SystemTuning.MmResidentAvailablePages <= 0
       ELSE SystemTuning.MmResidentAvailablePages = 0

\* C21 as stated: when the system-cache working-set minimum and the initial charge of
\* the nonpaged expansion leave MmResidentAvailablePages <= 0, initialization ends in a
\* fatal halt that carries diagnostic parameters and never returns to its caller
C21_ExhaustedResidentPagesHalt ==
    ResidentLeftNonPositive => (BugCheck # <<>> /\ ~ArmInitResult.Returned)

\* C21, amended: when the system-cache working-set minimum and the initial charge of
\* the nonpaged expansion leave MmResidentAvailablePages <= 0, MmArmInitSystem returns
\* FALSE to its caller; it raises no fatal halt and carries no diagnostic parameters
C21_ExhaustedResidentPagesReturnFalse ==
    ResidentLeftNonPositive =>
      /\ ArmInitResult = [Returned |-> TRUE, Value |-> FALSE]
      /\ BugCheck = <<>>
      /\ pc = "MmArmInitSystemReturned"

\* a medium system whose cache working set takes exactly the pages that are left
C21_Witness ==
    /\ pc = "MmArmInitSystemReturned"
    /\ ArmInitResult = [Returned |-> TRUE, Value |-> FALSE]
    /\ SystemTuning.MmResidentAvailablePages = 0
    /\ SystemTuning.MmSystemCacheWsMinimum = 1188


(* ========================= MiCreateMemoryEvent ========================= *)
\* NTSTATUS is a signed 32-bit value; NT_SUCCESS(Status) is Status >= 0
STATUS_SUCCESS == 0
STATUS_OBJECT_NAME_EXISTS == 1073741824
STATUS_UNSUCCESSFUL == -1073741823
STATUS_INSUFFICIENT_RESOURCES == -1073741670

NT_SUCCESS(Status) == Status >= 0

\* what a called routine can return
CallStatuses == {STATUS_SUCCESS, STATUS_OBJECT_NAME_EXISTS, STATUS_UNSUCCESSFUL,
                 STATUS_INSUFFICIENT_RESOURCES}

\* the names MiInitializeMemoryEvents passes
MemoryEventNames ==
    {"LowMemoryCondition", "HighMemoryCondition", "LowPagedPoolCondition",
     "HighPagedPoolCondition", "LowNonPagedPoolCondition", "HighNonPagedPoolCondition"}

\* the SIDs of the three ACEs, in the order they are added
AceSids == <<"SeWorldSid", "SeAliasAdminsSid", "SeLocalSystemSid">>

\* a failed call that returns at once, whatever the routine holds
ReturnOnFailure(Status, Following) ==
    IF NT_SUCCESS(Status) THEN Following ELSE "MiCreateMemoryEventReturned"

\* if (!NT_SUCCESS(Status)) goto CleanUp;
ContinueOrCleanUp(Status, Following) ==
    IF NT_SUCCESS(Status) THEN Following ELSE "CleanUp"

\* the status of a call kept in Status, a failure noted under the name of the step
Called(C, Step, Status) ==
    [C EXCEPT !.Status = Status,
              !.Failed = IF NT_SUCCESS(Status) THEN @ ELSE @ \cup {Step}]

InitCreateEvent ==
    /\ ScannedGlobals(PlainList)
    /\ PfnDatabaseUnbuilt(InvalidPte)
    /\ RequestedPageCount = 0
    /\ PoolUnsized
    /\ ThresholdsUnset
    /\ MmAvailablePages = 0
    /\ EventsCreated
    /\ LimitsUnbuilt
    /\ ColorsUncomputed
    /\ ResidentUntuned
    /\ PagedPoolUnbuilt(InvalidPte)
    /\ \E Name \in MemoryEventNames : CreateEvent = EnteredFor(Name)
    /\ pc = "RtlCreateSecurityDescriptor"

createFrame == <<eventVars, limitsVars, colorVars, residentVars, pagedPoolVars,
                 MemoryDescriptorList, scanVars, allocVars, BugCheck, pfnVars,
                 RequestedPageCount, poolVars, thresholdVars>>

\* Status = RtlCreateSecurityDescriptor(...); if (!NT_SUCCESS(Status)) return Status;
CreateSecurityDescriptor ==
    /\ pc = "RtlCreateSecurityDescriptor"
    /\ \E Status \in CallStatuses :
         /\ CreateEvent' = Called(CreateEvent, "RtlCreateSecurityDescriptor", Status)
         /\ pc' = IF NT_SUCCESS(Status) THEN "ExAllocatePoolWithTag"
                  ELSE "MiCreateMemoryEventReturned"
    /\ UNCHANGED createFrame

\* Dacl = ExAllocatePoolWithTag(...); if (!Dacl) return STATUS_INSUFFICIENT_RESOURCES;
AllocateDacl ==
    /\ pc = "ExAllocatePoolWithTag"
    /\ \/ /\ CreateEvent' = [CreateEvent EXCEPT !.Dacl = "Allocated"]
          /\ pc' = "RtlCreateAcl"
       \/ /\ CreateEvent' = Called(CreateEvent, "ExAllocatePoolWithTag",
                                   STATUS_INSUFFICIENT_RESOURCES)
          /\ pc' = "MiCreateMemoryEventReturned"
    /\ UNCHANGED createFrame

\* Status = RtlCreateAcl(Dacl, DaclLength, ACL_REVISION);
CreateAcl ==
    /\ pc = "RtlCreateAcl"
    /\ \E Status \in CallStatuses :
         /\ CreateEvent' = Called(CreateEvent, "RtlCreateAcl", Status)
         /\ pc' = ContinueOrCleanUp(Status, "RtlAddAccessAllowedAce")
    /\ UNCHANGED createFrame

\* Status = RtlAddAccessAllowedAce(Dacl, ACL_REVISION, ..., Sid), for each SID in turn
AddAccessAllowedAce ==
    /\ pc = "RtlAddAccessAllowedAce"
    /\ LET Sid == AceSids[Len(CreateEvent.Aces) + 1]
       IN \E Status \in CallStatuses :
            LET Added == IF NT_SUCCESS(Status)
                         THEN [CreateEvent EXCEPT !.Aces = Append(@, Sid)]
                         ELSE CreateEvent
            IN /\ CreateEvent' = Called(Added, Sid, Status)
               /\ pc' = ContinueOrCleanUp(Status,
                          IF Len(Added.Aces) < Len(AceSids)
                          THEN "RtlAddAccessAllowedAce"
                          ELSE "RtlSetDaclSecurityDescriptor")
    /\ UNCHANGED createFrame

\* Status = RtlSetDaclSecurityDescriptor(&SecurityDescriptor, TRUE, Dacl, FALSE);
SetDaclSecurityDescriptor ==
    /\ pc = "RtlSetDaclSecurityDescriptor"
    /\ \E Status \in CallStatuses :
         /\ CreateEvent' = Called([CreateEvent EXCEPT !.DaclInDescriptor = NT_SUCCESS(Status)],
                                  "RtlSetDaclSecurityDescriptor", Status)
         /\ pc' = ContinueOrCleanUp(Status, "ZwCreateEvent")
    /\ UNCHANGED createFrame

\* Status = ZwCreateEvent(&EventHandle, ...), falling into CleanUp
CreateEventObject ==
    /\ pc = "ZwCreateEvent"
    /\ \E Status \in CallStatuses :
         /\ CreateEvent' = Called([CreateEvent EXCEPT
                                     !.EventHandle = IF NT_SUCCESS(Status) THEN "Open" ELSE @],
                                  "ZwCreateEvent", Status)
         /\ pc' = "CleanUp"
    /\ UNCHANGED createFrame

\* ExFreePool(Dacl)
FreeDacl(C) == [C EXCEPT !.Dacl = "Freed", !.Frees = @ + 1]

\* CleanUp: free the DACL; on the success path reference the object and close the
\* handle; return Status
CleanUp ==
    /\ pc = "CleanUp"
    /\ LET Freed == FreeDacl(CreateEvent)
       IN IF NT_SUCCESS(CreateEvent.Status)
          THEN \E Status \in CallStatuses :
                 CreateEvent' =
                   Called([Freed EXCEPT
                             !.Event = IF NT_SUCCESS(Status) THEN Freed.Name ELSE @,
                             !.EventHandle = "Closed"],
                          "ObReferenceObjectByHandle", Status)
          ELSE CreateEvent' = Freed
    /\ pc' = "MiCreateMemoryEventReturned"
    /\ UNCHANGED createFrame

NextCreateEvent ==
    \/ CreateSecurityDescriptor
    \/ AllocateDacl
    \/ CreateAcl
    \/ AddAccessAllowedAce
    \/ SetDaclSecurityDescriptor
    \/ CreateEventObject
    \/ CleanUp

SpecCreateEvent == InitCreateEvent /\ [][NextCreateEvent]_vars

\* the steps the DACL buffer lives through
DaclSteps ==
    {"RtlCreateAcl", "RtlSetDaclSecurityDescriptor", "ZwCreateEvent",
     "ObReferenceObjectByHandle"} \cup Range(AceSids)

\* C25: whichever of the ACL creation, the three ACE additions, the DACL attachment,
\* the event creation and the object reference fail, MiCreateMemoryEvent frees the
\* DACL buffer, once allocated, exactly once before it returns (and never twice on the
\* way), and returns a failure status when any of those steps failed
C25_DaclFreedOnceFailureReturned ==
    /\ CreateEvent.Frees <= 1
    /\ pc = "MiCreateMemoryEventReturned" =>
         /\ CreateEvent.Dacl # "Unallocated" =>
              CreateEvent.Frees = 1 /\ CreateEvent.Dacl = "Freed"
         /\ CreateEvent.Failed \cap DaclSteps # {} => ~NT_SUCCESS(CreateEvent.Status)

\* a return after the third ACE addition failed with two ACEs in the allocated DACL
C25_Witness ==
    /\ pc = "MiCreateMemoryEventReturned"
    /\ CreateEvent.Failed = {"SeLocalSystemSid"}
    /\ Len(CreateEvent.Aces) = 2
    /\ CreateEvent.Frees = 1

(* ================= mapping before writing, and Phase A ================== *)
\* C26: within MiInitializePfnDatabase no PFN entry is written (as an in-use or ROM
\* entry, by a free-list insertion, by the residue reclaim, by the page-table walk, as
\* the pinned frame 0 or as a page of the PFN array itself) while the PTE of the page of
\* the PFN array that holds the entry is not valid
C26_EntriesMappedBeforeWritten == UnmappedWrites = {}

\* a finished run that inserted free pages, marked ROM pages, pinned frame 0 and
\* marked the pages of the PFN array, over a PFN array of several pages
C26_Witness ==
    /\ AtEnd
    /\ FreeInsertLog # <<>>
    /\ \E i \in 1..Len(MemoryDescriptorList) :
         MemoryDescriptorList[i].MemoryType = "LoaderXIPRom"
    /\ MmPfnDatabase[0].ReferenceCount = PinnedReferenceCount
    /\ Len(EarlyAllocLog) >= 3

\* the PTEs covering the PFN entries of descriptor Md
PtesOfDescriptor(Md) ==
    PfnPageOf(Md.BasePage)..LastPfnPageOf(Md.BasePage, Md.PageCount)

\* the PTEs of the PFN array and the color tables
PfnDatabasePtes == 0..(NumDbPages - 1)

\* Phase A is run for the current descriptor and comes to its end
PhaseAStep ==
    /\ InDescriptorLoop
    /\ MiIsMemoryTypeInDatabase(CurrentMd.MemoryType)
    /\ pc' = "PopulateDescriptor"

\* C27: after Phase A of MiMapPfnDatabase for an in-database descriptor every PTE
\* covering its PFN entries is valid; one single-frame bootstrap allocation was made
\* for each of those PTEs that was invalid before and none for one that was valid;
\* the PTEs that were valid keep their frame; no frame is mapped by two PTEs of the
\* PFN database
C27_PhaseAMapsEachPageOnce ==
    [][PhaseAStep =>
         LET Ptes == PtesOfDescriptor(CurrentMd)
             Before == PageTable[PfnTable]
             After == PageTable'[PfnTable]
             Invalid == {j \in Ptes : Before[j].Valid = 0}
             Made == SubSeq(EarlyAllocLog', Len(EarlyAllocLog) + 1, Len(EarlyAllocLog'))
         IN /\ \A j \in Ptes : After[j].Valid = 1
            /\ Len(Made) = Cardinality(Invalid)
            /\ \A n \in 1..Len(Made) : Made[n][2] = 1
            /\ {Made[n][1] : n \in 1..Len(Made)} = {After[j].PageFrameNumber : j \in Invalid}
            /\ \A j \in Ptes \ Invalid : After[j] = Before[j]
            /\ \A i, j \in PfnDatabasePtes :
                 (i # j /\ After[i].Valid = 1 /\ After[j].Valid = 1) =>
                   After[i].PageFrameNumber # After[j].PageFrameNumber]_vars

\* Phase A has run for the second descriptor, whose entries begin on the one page the
\* first descriptor had mapped and end on a page that had to be allocated
C27_Witness ==
    /\ pc = "PopulateDescriptor"
    /\ ListEntry = 2
    /\ MiIsMemoryTypeInDatabase(MemoryDescriptorList[1].MemoryType)
    /\ PtesOfDescriptor(MemoryDescriptorList[1]) = {PfnPageOf(CurrentMd.BasePage)}
    /\ Cardinality(PtesOfDescriptor(CurrentMd)) = 2
    /\ Len(EarlyAllocLog) = 2

\* MiMapPfnDatabase has just returned
MapPfnDatabaseReturned == pc = "MiInitializeColorTables"

\* positions of the in-database descriptors that are neither free, nor XIPRom, nor
\* the descriptor of the bootstrap allocator
InUseDescriptors ==
    {i \in 1..Len(MemoryDescriptorList) :
       /\ MiIsMemoryTypeInDatabase(MemoryDescriptorList[i].MemoryType)
       /\ ~MiIsMemoryTypeFree(MemoryDescriptorList[i].MemoryType)
       /\ MemoryDescriptorList[i].MemoryType # "LoaderXIPRom"
       /\ i # MxFreeDescriptor}

IsInUseEntry(e) ==
    /\ e.ShareCount = 1
    /\ e.ReferenceCount = 1
    /\ e.PageLocation = "ActiveAndValid"
    /\ e.CacheAttribute = "MiNonCached"
    /\ e.PteAddress = NullPte
    /\ e.PteFrame = 0

\* C28: after MiMapPfnDatabase every frame of every in-database descriptor that is
\* neither free, nor XIPRom, nor the bootstrap descriptor has share count 1, reference
\* count 1, page location ActiveAndValid, cache attribute NonCached, a null PTE address
\* and PTE frame 0, whether Phase A mapped and zeroed the page of its entry for this
\* descriptor or found it valid
C28_InUseEntriesAfterMap ==
    MapPfnDatabaseReturned =>
      \A i \in InUseDescriptors :
        \A f \in FramesOf(MemoryDescriptorList[i]) : IsInUseEntry(MmPfnDatabase[f])

\* MiMapPfnDatabase has returned from a list whose second descriptor is in use and has
\* its entries on the page the first descriptor had mapped, and whose last descriptor
\* is in use on a page of its own
C28_Witness ==
    /\ MapPfnDatabaseReturned
    /\ 2 \in InUseDescriptors
    /\ MiIsMemoryTypeInDatabase(MemoryDescriptorList[1].MemoryType)
    /\ PtesOfDescriptor(MemoryDescriptorList[2]) = PtesOfDescriptor(MemoryDescriptorList[1])
    /\ Len(MemoryDescriptorList) \in InUseDescriptors
    /\ IsInUseEntry(MmPfnDatabase[MemoryDescriptorList[2].BasePage])

(* ================== the pages of the PFN array and frame 0 ============== *)
\* the frames that back the pages of the PFN array from the page of the entry of the
\* lowest physical page to the page of the entry of the highest
PfnArrayFrames ==
    SelfFrames(PageTable, PfnPageOf(MmLowestPhysicalPage), PfnPageOf(MmHighestPhysicalPage))

\* at the end every frame backing the PFN array has share count 1 and reference count 1
PfnArrayFramesReferenced ==
    AtEnd => \A f \in PfnArrayFrames :
               MmPfnDatabase[f].ShareCount = 1 /\ MmPfnDatabase[f].ReferenceCount = 1

\* MiBuildPfnDatabaseSelf changes the two counts of those frames and nothing else
SelfChangesOnlyCounts ==
    pc = "MiBuildPfnDatabaseSelf" =>
      \A f \in Frames :
        MmPfnDatabase'[f] =
          IF f \in PfnArrayFrames
          THEN [MmPfnDatabase[f] EXCEPT !.ShareCount = 1, !.ReferenceCount = 1]
          ELSE MmPfnDatabase[f]

\* MiBuildPfnDatabaseZeroPage pins frame 0, giving it PteFrame, when the lowest physical
\* page is 0 and frame 0 has reference count 0, and changes nothing otherwise
ZeroPagePinsWith(PteFrame) ==
    pc = "MiBuildPfnDatabaseZeroPage" =>
      IF MmLowestPhysicalPage = 0 /\ MmPfnDatabase[0].ReferenceCount = 0
      THEN /\ MmPfnDatabase'[0].ReferenceCount = 65520
           /\ MmPfnDatabase'[0].PageLocation = "ActiveAndValid"
           /\ MmPfnDatabase'[0].PteFrame = PteFrame
           /\ \A f \in Frames \ {0} : MmPfnDatabase'[f] = MmPfnDatabase[f]
      ELSE MmPfnDatabase' = MmPfnDatabase

\* C29 as stated: after MiInitializePfnDatabase every frame backing a page of the PFN
\* array between the entries of the lowest and the highest physical page has share
\* count 1 and reference count 1, MiBuildPfnDatabaseSelf changes nothing else, and
\* MiBuildPfnDatabaseZeroPage changes frame 0's entry (reference count 0xFFF0,
\* ActiveAndValid, PTE frame = the frame of the top-level directory) only when the
\* lowest physical page is 0 and frame 0 is unreferenced
C29_ZeroPageFrameIsDirectory ==
    /\ []PfnArrayFramesReferenced
    /\ [][SelfChangesOnlyCounts]_vars
    /\ [][ZeroPagePinsWith(PageTable[SelfPde][SelfPde].PageFrameNumber)]_vars

\* what MiInitializePfnDatabase does: the same, with the PTE frame of the pinned frame 0
\* being the frame that the page-directory entry of address 0xFFFFFFFF maps (the page
\* table of the top of the address space)
ZeroPageFrameIsLastPageTable ==
    /\ []PfnArrayFramesReferenced
    /\ [][SelfChangesOnlyCounts]_vars
    /\ [][ZeroPagePinsWith(PageTable[SelfPde][LastPde].PageFrameNumber)]_vars

\* a finished run that pinned frame 0 and marked two frames backing the PFN array
ZeroPagePinnedAndArrayMarked ==
    /\ AtEnd
    /\ MmPfnDatabase[0].ReferenceCount = 65520
    /\ MmPfnDatabase[0].PteFrame = PageTable[SelfPde][LastPde].PageFrameNumber
    /\ Cardinality(PfnArrayFrames) >= 2

(* ==================== the color tables and the free list ================ *)
\* frames of color c that MiInsertPageInFreeList was called on
InsertedOfColor(c) == {f \in InsertedFrames : ColorOf(f) = c}

\* C30: at the end of MiInitializePfnDatabase, for every color, the count of the
\* free-page color table is the number of frames of that color inserted on the free
\* list, and its flink is the sentinel only if that number is zero
C30_ColorHeadsAgreeWithFreeList ==
    AtEnd =>
      \A c \in Colors :
        /\ MmFreePagesByColor[c].Count = Cardinality(InsertedOfColor(c))
        /\ MmFreePagesByColor[c].Flink = LIST_HEAD => InsertedOfColor(c) = {}
=============================================================================
